---- MODULE Spec2Model ----
(***************************************************************************)
(* A model of the AXON codec (packages/core): the encoder (data analysis,  *)
(* type inference, mode selection, compression analysis, serializer), the  *)
(* decoder (lexer, parser, decompressor, object builder) and the state     *)
(* machines that drive encode and decode over bounded sets of inputs.      *)
(*                                                                         *)
(* Text is a TLA+ string; a character is a string of length 1.             *)
(* A JavaScript value is a record [t |-> tag, v |-> payload]:              *)
(*   "null"  v = 0            "undef" v = 0          "nan" v = 0           *)
(*   "bool"  v \in BOOLEAN    "num"   v \in Int      "str" v a string      *)
(*   "float" v the decimal text of a number that is no integer             *)
(*   "arr"   v a sequence of values                                        *)
(*   "obj"   v a sequence of entries [k |-> key, v |-> value], in          *)
(*           insertion order                                               *)
(*   "ref"   v = n > 0: the container n levels up the path from the root,  *)
(*           which is how a value that contains itself is written          *)
(* Numbers of the model are the integers TLC represents (32 bits).         *)
(***************************************************************************)
EXTENDS Integers, Sequences, FiniteSets, TLC

\* pc: the step reached; value, opts: the arguments of encode; doc: how the
\* input was made (the parts of a document, the shape of a value); text: what
\* encode returned or threw; decoded: what decode returned or threw; retext:
\* the second encode; ftype: the inferred field type;
\* advice: the recommendations of the compression analyzer; selected: the
\* mode selectMode returned; lexer: the lexer after tokenize, with its tokens
\* or the error thrown; bytes: what encodeVarint returned or threw; number:
\* what decodeVarint returned or threw; serializationStack: the objects a
\* Serializer is serializing; frames: its calls of serializeObject in progress;
\* schemas: the schemas of a SchemaRegistry by name; resolved: what getResolved
\* returned or threw
VARIABLES pc, value, opts, doc, text, decoded, retext, ftype, advice,
          selected, lexer, bytes, number, serializationStack, frames, schemas,
          resolved

vars ==
  <<pc, value, opts, doc, text, decoded, retext, ftype, advice, selected,
    lexer, bytes, number, serializationStack, frames, schemas, resolved>>

(***************************************************************************)
(* Text helpers: the JavaScript string and number primitives the code uses *)
(***************************************************************************)
Ch(s, i) == IF i >= 1 /\ i <= Len(s) THEN SubSeq(s, i, i) ELSE "\\0"

Digits == {"0", "1", "2", "3", "4", "5", "6", "7", "8", "9"}

DigitVal(c) ==
  CASE c = "0" -> 0 [] c = "1" -> 1 [] c = "2" -> 2 [] c = "3" -> 3
    [] c = "4" -> 4 [] c = "5" -> 5 [] c = "6" -> 6 [] c = "7" -> 7
    [] c = "8" -> 8 [] c = "9" -> 9

DigitChar(d) ==
  CASE d = 0 -> "0" [] d = 1 -> "1" [] d = 2 -> "2" [] d = 3 -> "3"
    [] d = 4 -> "4" [] d = 5 -> "5" [] d = 6 -> "6" [] d = 7 -> "7"
    [] d = 8 -> "8" [] d = 9 -> "9"

RECURSIVE NatToString(_)
NatToString(n) ==
  IF n < 10 THEN DigitChar(n) ELSE NatToString(n \div 10) \o DigitChar(n % 10)

\* Number.prototype.toString() of an integer
NumToString(n) == IF n < 0 THEN "-" \o NatToString(0 - n) ELSE NatToString(n)

\* the values of the model
Null == [t |-> "null", v |-> 0]
Undef == [t |-> "undef", v |-> 0]
NaN == [t |-> "nan", v |-> 0]
Bool(b) == [t |-> "bool", v |-> b]
Num(n) == [t |-> "num", v |-> n]
Str(s) == [t |-> "str", v |-> s]
Arr(items) == [t |-> "arr", v |-> items]
Obj(entries) == [t |-> "obj", v |-> entries]
Ref(n) == [t |-> "ref", v |-> n]
Entry(k, x) == [k |-> k, v |-> x]

\* Object.keys(obj)
Keys(o) == [i \in 1..Len(o.v) |-> o.v[i].k]

HasKey(o, k) == \E i \in 1..Len(o.v) : o.v[i].k = k

\* obj[k]: undefined when the key is missing
Get(o, k) ==
  IF HasKey(o, k) THEN o.v[CHOOSE i \in 1..Len(o.v) : o.v[i].k = k].v ELSE Undef

(***************************************************************************)
(* Type inference and widening (encoder/analyzer)                          *)
(***************************************************************************)
\* v <= 4294967295 and v >= -2147483648, written in 16-bit units
LeU32Max(v) == v \div 65536 <= 65535
GeI32Min(v) == v \div 65536 >= -32768

inferType(x) ==
  CASE x.t = "null" -> "null"
    [] x.t = "bool" -> "bool"
    [] x.t = "str" -> "str"
    [] x.t = "num" ->
         IF x.v >= 0
           THEN CASE x.v <= 255 -> "u8"
                  [] x.v > 255 /\ x.v <= 65535 -> "u16"
                  [] x.v > 65535 /\ LeU32Max(x.v) -> "u32"
                  [] OTHER -> "u64"
           ELSE CASE x.v >= -128 /\ x.v <= 127 -> "i8"
                  [] x.v < -128 /\ x.v >= -32768 /\ x.v <= 32767 -> "i16"
                  [] x.v < -32768 /\ GeI32Min(x.v) /\ x.v <= 2147483647 -> "i32"
                  [] OTHER -> "i64"
    [] x.t \in {"nan", "float"} -> "f32"
    [] x.t = "arr" -> "array"
    [] x.t = "obj" -> "object"
    [] OTHER -> "str"

TYPE_HIERARCHY ==
  [u8 |-> 1, u16 |-> 2, u32 |-> 3, u64 |-> 4, i8 |-> 5, i16 |-> 6,
   i32 |-> 7, i64 |-> 8, f32 |-> 9, f64 |-> 10]

InHierarchy(ty) == ty \in DOMAIN TYPE_HIERARCHY

\* parseInt(type.slice(1), 10) of an integer type name
TypeBits(ty) ==
  CASE ty \in {"u8", "i8"} -> 8
    [] ty \in {"u16", "i16"} -> 16
    [] ty \in {"u32", "i32"} -> 32
    [] ty \in {"u64", "i64"} -> 64

IsSigned(ty) == ty \in {"i8", "i16", "i32", "i64"}

Max(a, b) == IF a >= b THEN a ELSE b

\* a plausible slip: the signed type of the same width as the wider operand
widenTypeSameWidth(current, candidate) ==
  IF current = candidate THEN current
  ELSE IF ~InHierarchy(current) \/ ~InHierarchy(candidate)
    THEN IF InHierarchy(current) \/ InHierarchy(candidate) THEN "str" ELSE current
  ELSE IF current \in {"f32", "f64"} \/ candidate \in {"f32", "f64"} THEN "f64"
  ELSE IF IsSigned(current) # IsSigned(candidate)
    THEN LET maxBits == Max(TypeBits(current), TypeBits(candidate))
         IN  IF maxBits <= 8 THEN "i8"
             ELSE IF maxBits <= 16 THEN "i16"
             ELSE IF maxBits <= 32 THEN "i32"
             ELSE "i64"
  ELSE IF TYPE_HIERARCHY[current] >= TYPE_HIERARCHY[candidate] THEN current
       ELSE candidate

\* a plausible slip: the type of the higher rank, whatever the signs
widenTypeByRank(current, candidate) ==
  IF current = candidate THEN current
  ELSE IF ~InHierarchy(current) \/ ~InHierarchy(candidate)
    THEN IF InHierarchy(current) \/ InHierarchy(candidate) THEN "str" ELSE current
  ELSE IF current \in {"f32", "f64"} \/ candidate \in {"f32", "f64"} THEN "f64"
  ELSE IF TYPE_HIERARCHY[current] >= TYPE_HIERARCHY[candidate] THEN current
       ELSE candidate

widenType(current, candidate) ==
  IF current = candidate THEN current
  ELSE IF ~InHierarchy(current) \/ ~InHierarchy(candidate)
    THEN IF InHierarchy(current) \/ InHierarchy(candidate) THEN "str" ELSE current
  ELSE IF current \in {"f32", "f64"} \/ candidate \in {"f32", "f64"} THEN "f64"
  ELSE IF IsSigned(current) # IsSigned(candidate)
    THEN LET maxBits == Max(TypeBits(current), TypeBits(candidate))
         IN  IF maxBits <= 8 THEN "i16"
             ELSE IF maxBits <= 16 THEN "i32"
             ELSE IF maxBits <= 32 THEN "i64"
             ELSE "i64"
  ELSE IF TYPE_HIERARCHY[current] >= TYPE_HIERARCHY[candidate] THEN current
       ELSE candidate

(***************************************************************************)
(* Results of a call: text, or the error it throws                         *)
(***************************************************************************)
Ok(s) == [err |-> "", s |-> s]
Err(e) == [err |-> e, s |-> ""]
IsOk(r) == r.err = ""

\* Array.prototype.join over strings lo..hi of ss (concatenation is associative:
\* the range is split in the middle to keep the evaluation shallow)
RECURSIVE JoinRange(_, _, _, _)
JoinRange(ss, sep, lo, hi) ==
  IF lo > hi THEN ""
  ELSE IF lo = hi THEN ss[lo]
  ELSE LET mid == (lo + hi) \div 2
       IN  JoinRange(ss, sep, lo, mid) \o sep \o JoinRange(ss, sep, mid + 1, hi)

Join(ss, sep) == JoinRange(ss, sep, 1, Len(ss))

\* the sum of ns[lo..hi]
RECURSIVE SumRange(_, _, _)
SumRange(ns, lo, hi) ==
  IF lo > hi THEN 0
  ELSE IF lo = hi THEN ns[lo]
  ELSE LET mid == (lo + hi) \div 2
       IN  SumRange(ns, lo, mid) + SumRange(ns, mid + 1, hi)

Sum(ns) == SumRange(ns, 1, Len(ns))

\* TRUE, once a has been evaluated: a definition is evaluated when its value is
\* first needed, and a loop over many items is kept shallow by evaluating the
\* result of its first half before its second half starts
Evaluated(a) == a = a

\* the k-th smallest element of a finite set of integers
Nth(S, k) == CHOOSE s \in S : Cardinality({t \in S : t < s}) = k - 1

\* String.prototype.includes
Includes(s, sub) ==
  \E i \in 1..(Len(s) - Len(sub) + 1) : SubSeq(s, i, i + Len(sub) - 1) = sub

HasChar(s, cs) == \E i \in 1..Len(s) : Ch(s, i) \in cs

UpperLetters ==
  {"A", "B", "C", "D", "E", "F", "G", "H", "I", "J", "K", "L", "M",
   "N", "O", "P", "Q", "R", "S", "T", "U", "V", "W", "X", "Y", "Z"}

LowerLetters ==
  {"a", "b", "c", "d", "e", "f", "g", "h", "i", "j", "k", "l", "m",
   "n", "o", "p", "q", "r", "s", "t", "u", "v", "w", "x", "y", "z"}

LowerChar(c) ==
  CASE c = "A" -> "a" [] c = "B" -> "b" [] c = "C" -> "c" [] c = "D" -> "d"
    [] c = "E" -> "e" [] c = "F" -> "f" [] c = "G" -> "g" [] c = "H" -> "h"
    [] c = "I" -> "i" [] c = "J" -> "j" [] c = "K" -> "k" [] c = "L" -> "l"
    [] c = "M" -> "m" [] c = "N" -> "n" [] c = "O" -> "o" [] c = "P" -> "p"
    [] c = "Q" -> "q" [] c = "R" -> "r" [] c = "S" -> "s" [] c = "T" -> "t"
    [] c = "U" -> "u" [] c = "V" -> "v" [] c = "W" -> "w" [] c = "X" -> "x"
    [] c = "Y" -> "y" [] c = "Z" -> "z" [] OTHER -> c

\* String.prototype.toLowerCase
toLowerCase(s) == Join([i \in 1..Len(s) |-> LowerChar(Ch(s, i))], "")

(***************************************************************************)
(* Positions in a value.  A position is [anc, path]: the containers from   *)
(* the root down to the parent, and the child indices that lead to the     *)
(* node.  An object's identity is its path: a "ref" child resolves to the  *)
(* ancestor it names, at that ancestor's own position.                     *)
(***************************************************************************)
Root == [anc |-> <<>>, path |-> <<>>]

At(x, at) == [x |-> x, at |-> at]

IsContainer(x) == x.t \in {"arr", "obj"}

\* the k-th child of container x at position at, as [x, at]
Child(x, at, k) ==
  LET raw == IF x.t = "arr" THEN x.v[k] ELSE x.v[k].v
      chain == Append(at.anc, x)
  IN  IF raw.t = "ref"
        THEN LET m == Len(chain) - raw.v + 1
             IN  At(chain[m], [anc |-> SubSeq(chain, 1, m - 1),
                               path |-> SubSeq(at.path, 1, m - 1)])
        ELSE At(raw, [anc |-> chain, path |-> Append(at.path, k)])

\* value.map(x => x), each element at its position
Children(x, at) == [k \in 1..Len(x.v) |-> Child(x, at, k)]

\* Object.keys of an object; of an array or a string, its indices as strings
KeysOf(x) ==
  CASE x.t = "obj" -> Keys(x)
    [] x.t = "arr" -> [k \in 1..Len(x.v) |-> NatToString(k - 1)]
    [] x.t = "str" -> [k \in 1..Len(x.v) |-> NatToString(k - 1)]
    [] OTHER -> <<>>

\* item[field] at its position; undefined when the key is missing
FieldAt(o, at, i) ==
  IF o.t = "str" THEN At(Str(Ch(o.v, i)), at) ELSE Child(o, at, i)

FieldOf(o, at, keys, field) ==
  IF \E i \in 1..Len(keys) : keys[i] = field
    THEN FieldAt(o, at, CHOOSE i \in 1..Len(keys) : keys[i] = field)
    ELSE At(Undef, at)

Field(o, at, field) == FieldOf(o, at, KeysOf(o), field)

\* a === b for two values at their positions
StrictEq(a, b) ==
  IF IsContainer(a.x) \/ IsContainer(b.x)
    THEN a.x.t = b.x.t /\ a.at.path = b.at.path
    ELSE a.x.t = b.x.t /\ a.x.t # "nan" /\ a.x = b.x

\* the loop of inferTypeForField over items[lo..hi], entered with resultType
\* ("" stands for null); the first half is evaluated before the second
\* one turn of the loop of inferTypeForField, for the field's value x
InferTurn(resultType, x) ==
  IF x.t \in {"null", "undef"} THEN resultType
  ELSE IF resultType = "" THEN inferType(x)
  ELSE widenType(resultType, inferType(x))

RECURSIVE InferLoop(_, _, _, _, _)
InferLoop(items, field, lo, hi, resultType) ==
  IF lo > hi THEN resultType
  ELSE IF lo = hi
    THEN InferTurn(resultType, Field(items[lo].x, items[lo].at, field).x)
  ELSE LET half == InferLoop(items, field, lo, (lo + hi) \div 2, resultType)
       IN  IF Evaluated(half)
             THEN InferLoop(items, field, (lo + hi) \div 2 + 1, hi, half)
             ELSE half

\* resultType || 'str'
OrStr(resultType) == IF resultType = "" THEN "str" ELSE resultType

inferTypeForField(items, field) ==
  IF Len(items) = 0 THEN "str"
  ELSE OrStr(InferLoop(items, field, 1, Len(items), ""))

(***************************************************************************)
(* Data analysis (encoder/analyzer)                                        *)
(***************************************************************************)
\* the result for an array of objects, uniform or not
ObjectsAnalysis(isUniform, firstFields) ==
  [isArray |-> TRUE, isArrayOfObjects |-> TRUE,
   isUniform |-> isUniform, hasFields |-> isUniform,
   fields |-> IF isUniform THEN firstFields ELSE <<>>]

\* every item after the first is an object with the first item's fields
SameFields(items, firstFields) ==
  \A i \in 2..Len(items) :
    /\ items[i].x.t = "obj"
    /\ Len(items[i].x.v) = Len(firstFields)
    /\ \A j \in 1..Len(items[i].x.v) :
         \E f \in 1..Len(firstFields) : items[i].x.v[j].k = firstFields[f]

analyzeItems(items) ==
  IF items[1].x.t # "obj"
    THEN [isArray |-> TRUE, isArrayOfObjects |-> FALSE, isUniform |-> FALSE,
          hasFields |-> FALSE, fields |-> <<>>]
    ELSE ObjectsAnalysis(SameFields(items, Keys(items[1].x)), Keys(items[1].x))

analyzeData(data, at) ==
  IF data.t # "arr"
    THEN [isArray |-> FALSE, isArrayOfObjects |-> FALSE, isUniform |-> FALSE,
          hasFields |-> FALSE, fields |-> <<>>]
  ELSE IF Len(data.v) = 0
    THEN [isArray |-> TRUE, isArrayOfObjects |-> FALSE, isUniform |-> FALSE,
          hasFields |-> FALSE, fields |-> <<>>]
  ELSE analyzeItems(Children(data, at))

(***************************************************************************)
(* Mode selection (encoder/mode-selector and the modes' shouldUse tests)   *)
(***************************************************************************)
SparseMinRows == 20
StreamMinRows == 50
ColumnarMinRows == 100

\* typeof item === 'object' && item !== null
IsObjectLike(x) == x.t \in {"obj", "arr"}

\* Object.values(item) of an object or an array, resolved
ValuesOf(item) == [k \in 1..Len(item.x.v) |-> Child(item.x, item.at, k).x]

\* the fields of all items, as <<item, field>> pairs
Cells(items) ==
  {c \in (1..Len(items)) \X (1..64) : c[2] <= Len(items[c[1]].x.v)}

\* nullFields / totalFields > 0.5 (0/0 is NaN, and NaN > 0.5 is false)
MostlyNull(items, cells) ==
  2 * Cardinality({c \in cells :
                     ValuesOf(items[c[1]])[c[2]].t \in {"null", "undef"}})
    > Cardinality(cells)

sparseItems(items) ==
  IF Len(items) < SparseMinRows THEN FALSE
  ELSE IF ~(\A i \in 1..Len(items) : IsObjectLike(items[i].x)) THEN FALSE
  ELSE MostlyNull(items, Cells(items))

shouldUseSparse(data, at) == sparseItems(Children(data, at))

IsTimeKey(key) ==
  \/ Includes(toLowerCase(key), "time")
  \/ Includes(toLowerCase(key), "date")
  \/ key = "ts"
  \/ key = "timestamp"
  \/ key = "created"
  \/ key = "updated"

\* some key of the first item names a time
HasTimeKey(keys) == \E j \in 1..Len(keys) : IsTimeKey(keys[j])

streamItems(items) ==
  IF Len(items) < StreamMinRows THEN FALSE
  ELSE IF ~(\A i \in 1..Len(items) : IsObjectLike(items[i].x)) THEN FALSE
  ELSE HasTimeKey(KeysOf(items[1].x))

shouldUseStream(data, at) == streamItems(Children(data, at))

KeySet(o) == {o.v[j].k : j \in 1..Len(o.v)}

\* numericFields / firstKeys.length > 0.5, for uniform items
MostlyNumeric(items, firstKeys) ==
  IF ~(\A i \in 1..Len(items) : KeySet(items[i].x) = firstKeys) THEN FALSE
  ELSE 2 * Cardinality({k \in firstKeys :
                          \A i \in 1..Len(items) :
                            Field(items[i].x, items[i].at, k).x.t \in {"num", "nan"}})
         > Cardinality(firstKeys)

columnarItems(items) ==
  IF Len(items) < ColumnarMinRows THEN FALSE
  ELSE IF ~(\A i \in 1..Len(items) : items[i].x.t = "obj") THEN FALSE
  ELSE MostlyNumeric(items, KeySet(items[1].x))

shouldUseColumnar(data, at) == columnarItems(Children(data, at))

\* the columnar test ahead of the stream test
modeOfArrayColumnarFirst(x, at, analysis) ==
  IF ~analysis.isArrayOfObjects THEN "compact"
  ELSE IF ~analysis.isUniform THEN "json"
  ELSE IF shouldUseSparse(x, at) THEN "sparse"
  ELSE IF shouldUseColumnar(x, at) THEN "columnar"
  ELSE IF shouldUseStream(x, at) THEN "stream"
  ELSE "compact"

\* the mode for a non-empty array, given its analysis
modeOfArray(x, at, analysis) ==
  IF ~analysis.isArrayOfObjects THEN "compact"
  ELSE IF ~analysis.isUniform THEN "json"
  ELSE IF shouldUseSparse(x, at) THEN "sparse"
  ELSE IF shouldUseStream(x, at) THEN "stream"
  ELSE IF shouldUseColumnar(x, at) THEN "columnar"
  ELSE "compact"

\* the requested mode ignored: the shape of the value decides
selectModeByShape(x, at, mode) ==
  IF x.t # "arr" THEN "nested"
  ELSE IF Len(x.v) = 0 THEN "compact"
  ELSE modeOfArray(x, at, analyzeData(x, at))

selectMode(x, at, mode) ==
  IF mode # "auto" THEN mode
  ELSE IF x.t # "arr" THEN "nested"
  ELSE IF Len(x.v) = 0 THEN "compact"
  ELSE modeOfArray(x, at, analyzeData(x, at))

(***************************************************************************)
(* Compression analyzer (encoder/compression-analyzer)                     *)
(***************************************************************************)
CompressionMinRows == 10

\* String(value) of an array: elements joined by ",", null and undefined as "",
\* and an array that is already being joined as ""
RECURSIVE ArrayToString(_, _, _)
RECURSIVE ElementString(_, _)
\* what the join writes for element c
ElementString(c, joining) ==
  CASE c.x.t \in {"null", "undef"} -> ""
    [] c.x.t = "bool" -> IF c.x.v THEN "true" ELSE "false"
    [] c.x.t = "num" -> NumToString(c.x.v)
    [] c.x.t = "float" -> c.x.v
    [] c.x.t = "nan" -> "NaN"
    [] c.x.t = "str" -> c.x.v
    [] c.x.t = "obj" -> "[object Object]"
    [] c.x.t = "arr" -> ArrayToString(c.x, c.at, joining)

ArrayToString(x, at, joining) ==
  IF at.path \in joining THEN ""
  ELSE Join([k \in 1..Len(x.v) |->
               ElementString(Child(x, at, k), joining \cup {at.path})], ",")

\* String(value), which is also what a template literal writes
JsString(a) ==
  CASE a.x.t = "null" -> "null"
    [] a.x.t = "undef" -> "undefined"
    [] a.x.t = "bool" -> IF a.x.v THEN "true" ELSE "false"
    [] a.x.t = "num" -> NumToString(a.x.v)
    [] a.x.t = "float" -> a.x.v
    [] a.x.t = "nan" -> "NaN"
    [] a.x.t = "str" -> a.x.v
    [] a.x.t = "obj" -> "[object Object]"
    [] a.x.t = "arr" -> ArrayToString(a.x, a.at, {})

\* what Array.prototype.join writes for an element
JoinString(a) == IF a.x.t \in {"null", "undef"} THEN "" ELSE JsString(a)

\* the indices where a run of === values starts
RunStarts(values) ==
  {i \in 1..Len(values) : i = 1 \/ ~StrictEq(values[i], values[i - 1])}

\* getRLECompressionRatio(values) >= 0.3, that is 1 - runs / length >= 0.3
\* (in doubles 1 - 0.7 is just above 0.3, so the boundary is included)
RLERatioQualifies(values) ==
  /\ Len(values) > 0
  /\ 10 * (Len(values) - Cardinality(RunStarts(values))) >= 3 * Len(values)

\* the members of new Set(values) for strings and null
UniqueValues(values) == {values[i].x : i \in 1..Len(values)}

shouldUseDictionary(values) ==
  IF Len(values) < CompressionMinRows THEN FALSE
  ELSE IF ~(\A i \in 1..Len(values) : values[i].x.t \in {"str", "null"}) THEN FALSE
  \* uniqueValues.size / values.length < 0.2
  ELSE 5 * Cardinality(UniqueValues(values)) < Len(values)

\* first occurrences, in order: the iteration order of new Set(values)
FirstOccurrences(values) ==
  {i \in 1..Len(values) : \A j \in 1..(i - 1) : values[j].x # values[i].x}

\* getDictionaryRatio(values) >= 0.2.  In doubles 1 - 0.8 is just below 0.2, so
\* the ratio qualifies only when compressedSize / originalSize is below 0.8.
DictionarySizesQualify(dictSize, originalSize, length) ==
  /\ length > 0
  /\ originalSize # 0
  /\ 5 * (originalSize - (dictSize + length * 2)) > originalSize

\* Array.from(uniqueValues).join('').length
DictSize(values, firsts) ==
  Sum([k \in 1..Cardinality(firsts) |-> Len(JoinString(values[Nth(firsts, k)]))])

DictionaryRatioQualifies(values) ==
  DictionarySizesQualify(DictSize(values, FirstOccurrences(values)),
                         Sum([i \in 1..Len(values) |-> Len(JoinString(values[i]))]),
                         Len(values))

shouldUseDelta(values) ==
  IF Len(values) < CompressionMinRows THEN FALSE
  ELSE IF ~(\A i \in 1..Len(values) : values[i].x.t = "num") THEN FALSE
  ELSE LET ascending == Cardinality({i \in 2..Len(values) :
                                       values[i].x.v > values[i - 1].x.v})
           descending == Cardinality({i \in 2..Len(values) :
                                        values[i].x.v < values[i - 1].x.v})
           total == Len(values) - 1
       \* ascending / total > 0.8 || descending / total > 0.8
       IN  5 * ascending > 4 * total \/ 5 * descending > 4 * total

\* getDeltaRatio(values) >= 0.2 (the boundary as for the dictionary ratio)
DeltaDigitsQualify(originalDigits, deltaDigits, length) ==
  /\ length >= 2
  /\ originalDigits # 0
  /\ 5 * (originalDigits - deltaDigits) > originalDigits

DeltaRatioQualifies(values) ==
  DeltaDigitsQualify(
    Sum([i \in 1..Len(values) |-> Len(NumToString(values[i].x.v))]),
    Len(NumToString(values[1].x.v))
      + Sum([i \in 1..(Len(values) - 1) |->
               Len(NumToString(values[i + 1].x.v - values[i].x.v)) + 1]),
    Len(values))

BitPackMax == 65535

shouldUseBitPacking(values) ==
  IF Len(values) < CompressionMinRows THEN FALSE
  ELSE IF ~(\A i \in 1..Len(values) : values[i].x.t = "num") THEN FALSE
  ELSE \A i \in 1..Len(values) : values[i].x.v >= 0 /\ values[i].x.v <= BitPackMax

RECURSIVE Pow2(_)
Pow2(b) == IF b = 0 THEN 1 ELSE 2 * Pow2(b - 1)

\* getBitPackingRatio(values) >= 0.2, with bitsNeeded = ceil(log2(max + 1))
\* Math.ceil(Math.log2(max + 1))
BitsNeeded(max) ==
  CHOOSE b \in 0..16 : Pow2(b) >= max + 1 /\ \A c \in 0..(b - 1) : Pow2(c) < max + 1

\* Math.max(...values)
MaxOf(values) ==
  CHOOSE m \in {values[i].x.v : i \in 1..Len(values)} :
    \A i \in 1..Len(values) : values[i].x.v <= m

BitPackingRatioQualifies(values) ==
  /\ Len(values) > 0
  /\ 5 * (Len(values) * 32 - Len(values) * BitsNeeded(MaxOf(values))) > Len(values) * 32

\* the dictionary test ahead of the run-length test
recommendCompressionDictionaryFirst(values) ==
  IF shouldUseDictionary(values) /\ DictionaryRatioQualifies(values)
    THEN "dictionary"
  ELSE IF RLERatioQualifies(values) THEN "rle"
  ELSE IF shouldUseDelta(values) /\ DeltaRatioQualifies(values) THEN "delta"
  ELSE IF shouldUseBitPacking(values) /\ BitPackingRatioQualifies(values)
    THEN "bitpack"
  ELSE "none"

recommendCompression(values) ==
  IF RLERatioQualifies(values) THEN "rle"
  ELSE IF shouldUseDictionary(values) /\ DictionaryRatioQualifies(values)
    THEN "dictionary"
  ELSE IF shouldUseDelta(values) /\ DeltaRatioQualifies(values) THEN "delta"
  ELSE IF shouldUseBitPacking(values) /\ BitPackingRatioQualifies(values)
    THEN "bitpack"
  ELSE "none"

\* data.map((item) => item[field])
ColumnValues(items, field) ==
  [i \in 1..Len(items) |-> Field(items[i].x, items[i].at, field)]

\* analyzeCompression(data): the recommendations, in the order of the first
\* item's keys, as records [field, algorithm]
Recommendations(items, fields) ==
  [j \in 1..Len(fields) |->
     [field |-> fields[j],
      algorithm |-> recommendCompression(ColumnValues(items, fields[j]))]]

\* the elements of seq at the indices of kept, in order
Select(seq, kept) == [k \in 1..Cardinality(kept) |-> seq[Nth(kept, k)]]

Recommended(rec) == Select(rec, {j \in 1..Len(rec) : rec[j].algorithm # "none"})

analyzeCompression(items) ==
  IF Len(items) = 0 THEN <<>>
  ELSE IF ~IsObjectLike(items[1].x) THEN <<>>
  ELSE Recommended(Recommendations(items, KeysOf(items[1].x)))

\* encodeRLE(values)
RunCount(values, starts, k) ==
  (IF k = Cardinality(starts) THEN Len(values) + 1 ELSE Nth(starts, k + 1))
    - Nth(starts, k)

\* r.count > 1 ? `${r.value}*${r.count}` : String(r.value)
RunText(runValue, count) ==
  IF count > 1 THEN JsString(runValue) \o "*" \o NatToString(count)
  ELSE JsString(runValue)

RunTextsOf(values, starts) ==
  [k \in 1..Cardinality(starts) |->
     RunText(values[Nth(starts, k)], RunCount(values, starts, k))]

encodeRLE(values) ==
  IF Len(values) = 0 THEN "" ELSE Join(RunTextsOf(values, RunStarts(values)), "|")

\* encodeDelta(values), values all numbers
DeltaText(delta) ==
  IF delta >= 0 THEN "+" \o NumToString(delta) ELSE NumToString(delta)

encodeDelta(values) ==
  IF Len(values) = 0 THEN ""
  ELSE Join([i \in 1..Len(values) |->
               IF i = 1 THEN NumToString(values[1].x.v)
               ELSE DeltaText(values[i].x.v - values[i - 1].x.v)], "|")

\* encodeDictionary(strs): dict in first-occurrence order and one index per value
IndicesIn(dict, strs) ==
  [dict |-> dict,
   indices |-> [i \in 1..Len(strs) |->
                  (CHOOSE k \in 1..Len(dict) : dict[k] = strs[i]) - 1]]

encodeDictionary(strs) ==
  IndicesIn(Select(strs, {i \in 1..Len(strs) : \A j \in 1..(i - 1) : strs[j] # strs[i]}),
            strs)

(***************************************************************************)
(* JavaScript built-ins the encoder calls                                  *)
(***************************************************************************)
\* the characters of code 32 to 95 and of code 97 to 126
AsciiLow ==
  " !\"#$%&'()*+,-./0123456789:;<=>?@ABCDEFGHIJKLMNOPQRSTUVWXYZ[\\]^_"

AsciiHigh == "abcdefghijklmnopqrstuvwxyz{|}~"

\* the UTF-16 code unit of a character (control characters sort before space)
CharCode(c) ==
  IF \E i \in 1..Len(AsciiLow) : Ch(AsciiLow, i) = c
    THEN 31 + (CHOOSE i \in 1..Len(AsciiLow) : Ch(AsciiLow, i) = c)
  ELSE IF \E i \in 1..Len(AsciiHigh) : Ch(AsciiHigh, i) = c
    THEN 96 + (CHOOSE i \in 1..Len(AsciiHigh) : Ch(AsciiHigh, i) = c)
  ELSE 0

\* a < b in the order Array.prototype.sort() uses by default
StrLess(a, b) ==
  \E i \in 1..(Len(a) + 1) :
    /\ i <= Len(b)
    /\ SubSeq(a, 1, i - 1) = SubSeq(b, 1, i - 1)
    /\ i > Len(a) \/ CharCode(Ch(a, i)) < CharCode(Ch(b, i))

\* keys.sort() of distinct keys
SortStrings(ss) ==
  [k \in 1..Len(ss) |->
     ss[CHOOSE i \in 1..Len(ss) :
          Cardinality({j \in 1..Len(ss) : StrLess(ss[j], ss[i])}) = k - 1]]

\* ' '.repeat(n)
Spaces(n) == Join([i \in 1..n |-> " "], "")

\* the quoted form JSON.stringify gives a string
JsonQuote(s) ==
  "\"" \o Join([i \in 1..Len(s) |->
                  CASE Ch(s, i) = "\"" -> "\\\""
                    [] Ch(s, i) = "\\" -> "\\\\"
                    [] Ch(s, i) = "\n" -> "\\n"
                    [] Ch(s, i) = "\t" -> "\\t"
                    [] Ch(s, i) = "\r" -> "\\r"
                    [] OTHER -> Ch(s, i)], "") \o "\""

(***************************************************************************)
(* Loops.  Iterate is `while (!Done(s)) s = Step(s)`.  Turns runs at most  *)
(* n turns, the first half of them evaluated before the second half, and   *)
(* Iterate runs 1, 2, 4, ... turns until the loop is done.                 *)
(***************************************************************************)
RECURSIVE Turns(_, _, _, _)
Turns(Step(_), Done(_), s, n) ==
  IF Done(s) \/ n = 0 THEN s
  ELSE IF n = 1 THEN Step(s)
  ELSE LET half == Turns(Step, Done, s, n \div 2)
       IN  IF Done(half) THEN half ELSE Turns(Step, Done, half, n - n \div 2)

\* more turns than any loop of the model takes
MaxTurns == 1000000

RECURSIVE IterateFrom(_, _, _, _)
IterateFrom(Step(_), Done(_), s, n) ==
  IF Done(s) \/ n > MaxTurns THEN s
  ELSE IterateFrom(Step, Done, Turns(Step, Done, s, n), 2 * n)

Iterate(Step(_), Done(_), s) == IterateFrom(Step, Done, s, 1)

(***************************************************************************)
(* Writing text.  A function that writes text is modelled by the pieces it *)
(* writes, in order: a piece is text (Emit), a throw (Throw), or a call    *)
(* of another writing function that is still to be made.  Run makes the    *)
(* pending calls from left to right, which is the order in which           *)
(* JavaScript evaluates them; the first throw ends the run.                *)
(***************************************************************************)
Emit(s) == [op |-> "emit", s |-> s]

Throw(e) == [op |-> "throw", e |-> e]

\* pieces.join(sep), the pieces still to be written
Interleave(ps, sep) ==
  [i \in 1..(2 * Len(ps) - 1) |-> IF i % 2 = 1 THEN ps[(i + 1) \div 2] ELSE Emit(sep)]

\* the calls a writing function makes
CallFormatValue(v, depth) ==
  [op |-> "formatValue", x |-> v.x, at |-> v.at, depth |-> depth]

CallJsonValue(v, stack, gap, ind) ==
  [op |-> "JsonValue", x |-> v.x, at |-> v.at, stack |-> stack, gap |-> gap, ind |-> ind]

CallSerializeObject(v, name, level, stack) ==
  [op |-> "serializeObject", x |-> v.x, at |-> v.at, name |-> name, level |-> level,
   stack |-> stack]

CallSerializeDefault(v, name, depth) ==
  [op |-> "serializeDefault", x |-> v.x, at |-> v.at, name |-> name, depth |-> depth]

\* the properties JSON.stringify writes: those whose value is not undefined
JsonKept(x, at) == {k \in 1..Len(x.v) : Child(x, at, k).x.t # "undef"}

\* JSON.stringify(value, null, gap) below the top: ind is the current
\* indentation and stack the containers being written, which is how a value
\* that contains itself ends in a TypeError
JsonValue(x, at, stack, gap, ind) ==
  LET inner == ind \o gap
      open == IF gap = "" THEN "" ELSE "\n" \o inner
      sep == IF gap = "" THEN "," ELSE ",\n" \o inner
      close == IF gap = "" THEN "" ELSE "\n" \o ind
      sub(k) == CallJsonValue(Child(x, at, k), stack \cup {at.path}, gap, inner)
      kept == JsonKept(x, at)
  IN  CASE x.t \in {"null", "undef", "nan"} -> <<Emit("null")>>
        [] x.t = "bool" -> <<Emit(IF x.v THEN "true" ELSE "false")>>
        [] x.t = "num" -> <<Emit(NumToString(x.v))>>
        [] x.t = "float" -> <<Emit(x.v)>>
        [] x.t = "str" -> <<Emit(JsonQuote(x.v))>>
        [] at.path \in stack -> <<Throw("TypeError")>>
        [] x.t = "arr" /\ Len(x.v) = 0 -> <<Emit("[]")>>
        [] x.t = "arr" ->
             <<Emit("[" \o open)>>
               \o Interleave([k \in 1..Len(x.v) |-> sub(k)], sep)
               \o <<Emit(close \o "]")>>
        [] x.t = "obj" /\ kept = {} -> <<Emit("{}")>>
        [] x.t = "obj" ->
             <<Emit("{" \o open)>>
               \o [i \in 1..(3 * Cardinality(kept) - 1) |->
                     CASE i % 3 = 1 ->
                            Emit(JsonQuote(x.v[Nth(kept, (i + 2) \div 3)].k)
                                   \o (IF gap = "" THEN ":" ELSE ": "))
                       [] i % 3 = 2 -> sub(Nth(kept, (i + 1) \div 3))
                       [] OTHER -> Emit(sep)]
               \o <<Emit(close \o "}")>>

\* JSON.stringify(value, null, indent); JSON.stringify(undefined) is undefined,
\* which a template or a join writes as the text below
JSONstringify(x, at, indent) ==
  IF x.t = "undef" THEN <<Emit("undefined")>>
  ELSE <<CallJsonValue(At(x, at), {}, Spaces(IF indent > 10 THEN 10 ELSE indent), "")>>

(***************************************************************************)
(* Serializer (encoder/serializer)                                         *)
(***************************************************************************)
MAX_DEPTH == 100

Whitespace == {" ", "\t", "\n", "\r", "\f"}

\* the first index from i on that holds no digit
DigitsEnd(s, i) ==
  CHOOSE j \in i..(Len(s) + 1) :
    /\ j = Len(s) + 1 \/ Ch(s, j) \notin Digits
    /\ \A k \in i..(j - 1) : Ch(s, k) \in Digits

\* /^-?\d+(\.\d+)?([eE][+-]?\d+)?$/.test(str)
\* where (\.\d+)? ends when it starts at p1, f1 being the end of the digits after p1
OptionalFraction(str, p1, f1) ==
  IF Ch(str, p1) = "." /\ f1 > p1 + 1 THEN f1 ELSE p1

FractionEnd(str, p1) == OptionalFraction(str, p1, DigitsEnd(str, p1 + 1))

\* where ([eE][+-]?\d+)? ends when it starts at p2, e0 being where its digits start
\* and e1 where they end
OptionalExponent(str, p2, e0, e1) ==
  IF Ch(str, p2) \in {"e", "E"} /\ e1 > e0 THEN e1 ELSE p2

ExponentDigits(str, p2, e0) == OptionalExponent(str, p2, e0, DigitsEnd(str, e0))

ExponentEnd(str, p2) ==
  ExponentDigits(str, p2, IF Ch(str, p2 + 1) \in {"+", "-"} THEN p2 + 2 ELSE p2 + 1)

\* \d+(\.\d+)?([eE][+-]?\d+)?$ from p0, p1 being the end of the digits at p0
NumberToEnd(str, p0, p1) ==
  p1 > p0 /\ ExponentEnd(str, FractionEnd(str, p1)) = Len(str) + 1

NumberFrom(str, p0) == NumberToEnd(str, p0, DigitsEnd(str, p0))

LooksLikeNumber(str) == NumberFrom(str, IF Ch(str, 1) = "-" THEN 2 ELSE 1)

needsQuoting(str, delimiter) ==
  \/ Len(str) = 0
  \/ HasChar(str, Whitespace)
  \/ Includes(str, delimiter)
  \/ HasChar(str, {"\"", ",", "\\"})
  \/ str \in {"true", "false", "null"}
  \/ LooksLikeNumber(str)

\* the quote escaped and nothing else
escapeStringQuoteOnly(str) ==
  Join([i \in 1..Len(str) |->
          IF Ch(str, i) = "\"" THEN "\\\"" ELSE Ch(str, i)], "")

escapeString(str) ==
  Join([i \in 1..Len(str) |->
          CASE Ch(str, i) = "\\" -> "\\\\"
            [] Ch(str, i) = "\"" -> "\\\""
            [] Ch(str, i) = "\n" -> "\\n"
            [] Ch(str, i) = "\t" -> "\\t"
            [] Ch(str, i) = "\r" -> "\\r"
            [] OTHER -> Ch(str, i)], "")

\* checkDepth(depth) throws
DepthExceeded(depth) == depth > MAX_DEPTH

formatValue(x, at, depth, o) ==
  CASE x.t = "null" -> <<Emit("null")>>
    [] x.t = "bool" -> <<Emit(IF x.v THEN "true" ELSE "false")>>
    [] x.t = "num" -> <<Emit(NumToString(x.v))>>
    [] x.t = "float" -> <<Emit(x.v)>>
    [] x.t = "nan" -> <<Emit("NaN")>>
    [] x.t = "str" ->
         IF needsQuoting(x.v, o.delimiter)
           THEN <<Emit("\"" \o escapeString(x.v) \o "\"")>>
           ELSE <<Emit(x.v)>>
    [] x.t = "arr" ->
         IF DepthExceeded(depth) THEN <<Throw("depth")>>
         ELSE <<Emit("[")>>
                \o Interleave([k \in 1..Len(x.v) |->
                                 CallFormatValue(Child(x, at, k), depth + 1)], ", ")
                \o <<Emit("]")>>
    [] x.t = "obj" ->
         IF DepthExceeded(depth) THEN <<Throw("depth")>> ELSE JSONstringify(x, at, 0)
    [] OTHER -> <<Emit("undefined")>>

\* the recommendations serializeCompactArray asks for
CompactRecommendations(items, o) ==
  IF o.compression /\ Len(items) >= CompressionMinRows
    THEN analyzeCompression(items) ELSE <<>>

\* recommendations.find((r) => r.field === field)?.algorithm
algorithmOf(recommendations, field) ==
  IF \E r \in 1..Len(recommendations) : recommendations[r].field = field
    THEN recommendations[CHOOSE r \in 1..Len(recommendations) :
                           recommendations[r].field = field].algorithm
    ELSE "none"

FieldDefText(field, type, algorithm) ==
  field \o ":" \o type \o (IF algorithm # "none" THEN "@" \o algorithm ELSE "")

CompactHeader(items, fields, recommendations, name, o) ==
  name \o "::[" \o NatToString(Len(items)) \o "] "
    \o Join([j \in 1..Len(fields) |->
               FieldDefText(fields[j], inferTypeForField(items, fields[j]),
                            algorithmOf(recommendations, fields[j]))], o.delimiter)

DictionaryDirective(field, dictionary) ==
  "\n@dict:" \o field \o " [" \o Join(dictionary.dict, ", ") \o "]"
    \o "\n@idx:" \o field \o " "
    \o Join([i \in 1..Len(dictionary.indices) |->
               NatToString(dictionary.indices[i])], ",")

Strings(values) == [i \in 1..Len(values) |-> JsString(values[i])]

\* the directive line of one recommendation, values being the field's column
CompactDirective(rec, values) ==
  CASE rec.algorithm = "dictionary" ->
         DictionaryDirective(rec.field, encodeDictionary(Strings(values)))
    [] rec.algorithm = "rle" -> "\n@rle:" \o rec.field \o " " \o encodeRLE(values)
    \* recommended only when every value is a number
    [] rec.algorithm = "delta" -> "\n@delta:" \o rec.field \o " " \o encodeDelta(values)
    [] OTHER -> ""

CompactDirectives(items, recommendations) ==
  Join([r \in 1..Len(recommendations) |->
          CompactDirective(recommendations[r],
                           ColumnValues(items, recommendations[r].field))], "")

CompressedFields(recommendations) ==
  {recommendations[r].field :
     r \in {q \in 1..Len(recommendations) :
              recommendations[q].algorithm \in {"dictionary", "rle", "delta"}}}

CompactCell(items, fields, compressedFields, i, j) ==
  IF fields[j] \in compressedFields THEN Emit("~")
  ELSE CallFormatValue(Field(items[i].x, items[i].at, fields[j]), 0)

\* one row: a new line, two spaces, and the cells joined by the delimiter
CompactRows(items, fields, compressedFields, rowPieces, o) ==
  [n \in 1..(Len(items) * rowPieces) |->
     IF (n - 1) % rowPieces = 0 THEN Emit("\n  ")
     ELSE IF ((n - 1) % rowPieces) % 2 = 1
       THEN CompactCell(items, fields, compressedFields,
                        (n - 1) \div rowPieces + 1, (((n - 1) % rowPieces) + 1) \div 2)
     ELSE Emit(o.delimiter)]

CompactPieces(items, fields, compressedFields, head, o) ==
  IF Cardinality(compressedFields) = Len(fields)
    THEN <<Emit(head)>>
    ELSE <<Emit(head)>>
           \o CompactRows(items, fields, compressedFields,
                          IF Len(fields) = 0 THEN 1 ELSE 2 * Len(fields), o)

CompactWith(items, fields, recommendations, name, o) ==
  CompactPieces(items, fields, CompressedFields(recommendations),
                CompactHeader(items, fields, recommendations, name, o)
                  \o CompactDirectives(items, recommendations), o)

CompactOf(items, fields, name, o) ==
  CompactWith(items, fields, CompactRecommendations(items, o), name, o)

serializeCompactArray(data, at, fields, name, o) ==
  CompactOf(Children(data, at), fields, name, o)

serializeInlineArray(data, at, name, depth, o) ==
  IF DepthExceeded(depth) THEN <<Throw("depth")>>
  ELSE <<Emit((IF name # "" THEN name \o "::" ELSE "")
                \o "[" \o NatToString(Len(data.v)) \o "]: ")>>
         \o Interleave([k \in 1..Len(data.v) |->
                          CallFormatValue(Child(data, at, k), depth + 1)], ", ")

\* the pieces serializeObject writes for the k-th property
PropertyLine(key, v, at, level, stack, valueIndent) ==
  CASE v.x.t = "arr" ->
         <<Emit("\n" \o valueIndent \o key \o ": [" \o NatToString(Len(v.x.v))
                  \o "]: ")>>
           \o Interleave([i \in 1..Len(v.x.v) |->
                            CallFormatValue(Child(v.x, v.at, i), level + 1)], ", ")
    [] v.x.t = "obj" ->
         <<Emit("\n"),
           CallSerializeObject(v, key, level + 1, stack \cup {at.path})>>
    [] OTHER ->
         <<Emit("\n" \o valueIndent \o key \o ":" \o inferType(v.x) \o ": "),
           CallFormatValue(v, 0)>>

ObjectLine(obj, at, k, level, stack, o) ==
  PropertyLine(obj.v[k].k, Child(obj, at, k), at, level, stack,
               Spaces((level + 1) * o.indent))

\* lines[1] \o ... \o lines[n] of a sequence of sequences
RECURSIVE FlattenRange(_, _, _)
FlattenRange(lines, lo, hi) ==
  IF lo > hi THEN <<>>
  ELSE IF lo = hi THEN lines[lo]
  ELSE FlattenRange(lines, lo, (lo + hi) \div 2)
         \o FlattenRange(lines, (lo + hi) \div 2 + 1, hi)

\* stack is serializationStack: the objects serializeObject has entered and not left
ObjectPieces(obj, at, name, level, stack, indentStr, o) ==
  <<Emit(indentStr \o (IF name # "" THEN name \o ": {" ELSE "{"))>>
    \o FlattenRange([k \in 1..Len(obj.v) |-> ObjectLine(obj, at, k, level, stack, o)],
                    1, Len(obj.v))
    \o <<Emit("\n" \o indentStr \o "}")>>

serializeObject(obj, at, name, level, stack, o) ==
  IF DepthExceeded(level) THEN <<Throw("depth")>>
  ELSE IF at.path \in stack THEN <<Throw("circular")>>
  ELSE ObjectPieces(obj, at, name, level, stack, Spaces(level * o.indent), o)

\* serializeDefault of an array, given its analysis
serializeArray(x, at, analysis, name, depth, o) ==
  IF analysis.isUniform
    THEN serializeCompactArray(x, at, analysis.fields, name, o)
    ELSE serializeInlineArray(x, at, name, depth, o)

serializeDefault(x, at, name, depth, o) ==
  IF DepthExceeded(depth) THEN <<Throw("depth")>>
  ELSE IF x.t = "arr" THEN serializeArray(x, at, analyzeData(x, at), name, depth, o)
  ELSE IF x.t = "obj"
    THEN IF Len(x.v) = 1 /\ Child(x, at, 1).x.t = "arr"
           THEN <<CallSerializeDefault(Child(x, at, 1), x.v[1].k, depth + 1)>>
           ELSE serializeObject(x, at, name, depth, {}, o)
  ELSE formatValue(x, at, 0, o)

(***************************************************************************)
(* Mode encoders (encoder/modes) and the serializer's entry                *)
(***************************************************************************)
\* value.replace(/"/g, '\\"') between quotes
QuoteOnly(s) ==
  "\"" \o Join([i \in 1..Len(s) |->
                  IF Ch(s, i) = "\"" THEN "\\\"" ELSE Ch(s, i)], "") \o "\""

\* formatValue of modes/columnar.ts; an undefined result is joined as ""
formatValueColumnar(v) ==
  CASE v.x.t = "null" -> Emit("null")
    [] v.x.t = "bool" -> Emit(IF v.x.v THEN "true" ELSE "false")
    [] v.x.t = "num" -> Emit(NumToString(v.x.v))
    [] v.x.t = "float" -> Emit(v.x.v)
    [] v.x.t = "nan" -> Emit("NaN")
    [] v.x.t = "str" ->
         IF HasChar(v.x.v, {",", " "}) \/ v.x.v \in {"null", "true", "false"}
           THEN Emit(QuoteOnly(v.x.v)) ELSE Emit(v.x.v)
    [] v.x.t = "undef" -> Emit("")
    [] OTHER -> CallJsonValue(v, {}, "", "")

\* formatValue of modes/stream.ts; an undefined result is joined as ""
formatValueStream(v) ==
  CASE v.x.t = "null" -> Emit("null")
    [] v.x.t = "bool" -> Emit(IF v.x.v THEN "true" ELSE "false")
    [] v.x.t = "num" -> Emit(NumToString(v.x.v))
    [] v.x.t = "float" -> Emit(v.x.v)
    [] v.x.t = "nan" -> Emit("NaN")
    [] v.x.t = "str" ->
         IF HasChar(v.x.v, {"|", " "}) THEN Emit(QuoteOnly(v.x.v)) ELSE Emit(v.x.v)
    [] v.x.t = "undef" -> Emit("")
    [] OTHER -> CallJsonValue(v, {}, "", "")

\* formatValue of modes/sparse.ts
formatValueSparse(v) ==
  CASE v.x.t \in {"null", "undef"} -> Emit("")
    [] v.x.t = "bool" -> Emit(IF v.x.v THEN "true" ELSE "false")
    [] v.x.t = "num" -> Emit(NumToString(v.x.v))
    [] v.x.t = "float" -> Emit(v.x.v)
    [] v.x.t = "nan" -> Emit("NaN")
    [] v.x.t = "str" ->
         IF HasChar(v.x.v, {"|", " "}) \/ Len(v.x.v) = 0
           THEN Emit(QuoteOnly(v.x.v)) ELSE Emit(v.x.v)
    [] OTHER -> CallJsonValue(v, {}, "", "")

\* Object.keys(item) and item[f] throw a TypeError when item is null or undefined
ReadsThrow(items, fields) ==
  Len(fields) > 0 /\ \E i \in 1..Len(items) : items[i].x.t \in {"null", "undef"}

\* one line per group: lead, then the cells of the group joined by sep, then tail
Table(groups, cells, lead(_), cell(_, _), sep, tail) ==
  LET per == IF cells = 0 THEN 2 ELSE 2 * cells + 1
  IN  [n \in 1..(groups * per) |->
         LET g == (n - 1) \div per + 1
             p == (n - 1) % per
         IN  IF p = 0 THEN Emit(lead(g))
             ELSE IF p = per - 1 THEN Emit(tail)
             ELSE IF p % 2 = 1 THEN cell(g, (p + 1) \div 2)
             ELSE Emit(sep)]

columnarTable(items, fields, name, indentStr) ==
  LET lead(j) == "\n" \o indentStr \o "  " \o fields[j] \o ":"
                   \o inferType(Field(items[1].x, items[1].at, fields[j]).x) \o ": ["
      cell(j, i) == formatValueColumnar(Field(items[i].x, items[i].at, fields[j]))
  IN  IF items[1].x.t \in {"null", "undef"} \/ ReadsThrow(items, fields)
        THEN <<Throw("TypeError")>>
      ELSE <<Emit(indentStr \o name \o "::[" \o NatToString(Len(items))
                    \o "]@columnar {")>>
             \o Table(Len(fields), Len(items), lead, cell, ", ", "]")
             \o <<Emit("\n" \o indentStr \o "}")>>

columnarOf(items, name, indentStr) ==
  IF Len(items) = 0 THEN <<Emit(name \o "::[0]@columnar:")>>
  ELSE columnarTable(items, SortStrings(KeysOf(items[1].x)), name, indentStr)

encodeColumnar(data, at, name, indent) ==
  columnarOf(Children(data, at), name, Spaces(indent))

streamTable(items, fields, name) ==
  LET lead(i) == "\n  "
      cell(i, j) == formatValueStream(Field(items[i].x, items[i].at, fields[j]))
  IN  IF items[1].x.t \in {"null", "undef"} \/ ReadsThrow(items, fields)
        THEN <<Throw("TypeError")>>
      ELSE <<Emit(name \o "::[" \o NatToString(Len(items)) \o "]@stream "
                    \o Join(fields, "|"))>>
             \o Table(Len(items), Len(fields), lead, cell, "|", "")

streamOf(items, name) ==
  IF Len(items) = 0 THEN <<Emit(name \o "::[0]@stream:")>>
  ELSE streamTable(items, KeysOf(items[1].x), name)

encodeStream(data, at, name) == streamOf(Children(data, at), name)

\* some item has no value for field f
hasNull(items, f) ==
  \E i \in 1..Len(items) :
    Field(items[i].x, items[i].at, f).x.t \in {"null", "undef"}

sparseOf(items, fields, name) ==
  LET lead(i) == "\n  "
      cell(i, j) == formatValueSparse(Field(items[i].x, items[i].at, fields[j]))
  IN  IF Len(items) = 0 THEN <<Emit(name \o "::[0]@sparse:")>>
      ELSE IF ReadsThrow(items, fields) THEN <<Throw("TypeError")>>
      ELSE <<Emit(name \o "::[" \o NatToString(Len(items)) \o "]@sparse "
                    \o Join([j \in 1..Len(fields) |->
                               IF hasNull(items, fields[j])
                                 THEN fields[j] \o "?" ELSE fields[j]], "|"))>>
             \o Table(Len(items), Len(fields), lead, cell, "|", "")

encodeSparse(data, at, fields, name) == sparseOf(Children(data, at), fields, name)

\* value[0] || {}: a falsy first item counts as an empty object
Falsy(x) ==
  \/ x.t \in {"null", "undef", "nan"}
  \/ x.t = "bool" /\ ~x.v
  \/ x.t = "num" /\ x.v = 0
  \/ x.t = "str" /\ x.v = ""

\* Serializer.serialize(value) as encode(value, options) calls it: without a name
serializeAs(x, mode, o) ==
  CASE mode = "columnar" ->
         IF x.t # "arr" THEN serializeDefault(x, Root, "", 0, o)
         ELSE encodeColumnar(x, Root, "", 0)
    [] mode = "stream" ->
         IF x.t # "arr" THEN serializeDefault(x, Root, "", 0, o)
         ELSE encodeStream(x, Root, "")
    [] mode = "sparse" ->
         IF x.t # "arr" \/ Len(x.v) = 0 THEN serializeDefault(x, Root, "", 0, o)
         ELSE encodeSparse(x, Root,
                           IF Falsy(Child(x, Root, 1).x) THEN <<>>
                           ELSE KeysOf(Child(x, Root, 1).x), "")
    [] mode = "json" -> JSONstringify(x, Root, o.indent)
    [] OTHER -> serializeDefault(x, Root, "", 0, o)

serialize(x, o) == serializeAs(x, selectMode(x, Root, o.mode), o)

\* the pieces a pending call writes
Expand(c, o) ==
  CASE c.op = "formatValue" -> formatValue(c.x, c.at, c.depth, o)
    [] c.op = "JsonValue" -> JsonValue(c.x, c.at, c.stack, c.gap, c.ind)
    [] c.op = "serializeObject" ->
         serializeObject(c.x, c.at, c.name, c.level, c.stack, o)
    [] c.op = "serializeDefault" -> serializeDefault(c.x, c.at, c.name, c.depth, o)

\* one step of writing: s is [out, work, err]
WriteStep(s, o) ==
  LET c == Head(s.work)
  IN  CASE c.op = "emit" -> [out |-> s.out \o c.s, work |-> Tail(s.work), err |-> ""]
        [] c.op = "throw" -> [out |-> "", work |-> <<>>, err |-> c.e]
        [] OTHER -> [out |-> s.out, work |-> Expand(c, o) \o Tail(s.work), err |-> ""]

\* encode(value, options): the text, or the error thrown
Written(s) == IF s.err # "" THEN Err(s.err) ELSE Ok(s.out)

encode(x, o) ==
  LET Turn(s) == WriteStep(s, o)
      Stop(s) == Len(s.work) = 0
  IN  Written(Iterate(Turn, Stop, [out |-> "", work |-> serialize(x, o), err |-> ""]))

(***************************************************************************)
(* Lexer (decoder/lexer)                                                   *)
(***************************************************************************)
\* an AXONParseError with its position; kind "" is no error
NoError == [kind |-> "", msg |-> "", line |-> 0, column |-> 0]

ParseError(msg, line, column) ==
  [kind |-> "parse", msg |-> msg, line |-> line, column |-> column]

isDigit(char) == char \in Digits

isIdentifierStart(char) ==
  char \in LowerLetters \/ char \in UpperLetters \/ char = "_"

isIdentifierChar(char) ==
  isIdentifierStart(char) \/ isDigit(char) \/ char \in {"-", ".", "@", "/"}

\* the lexer's fields; position is the index of the next character, from 1
NewLexer ==
  [position |-> 1, line |-> 1, column |-> 1, tokens |-> <<>>, err |-> NoError]

addToken(L, type, lexeme) ==
  [L EXCEPT !.tokens = Append(@, [type |-> type, value |-> lexeme, line |-> L.line,
                                  column |-> L.column - Len(lexeme)])]

\* advance(), n times
advance(L, n) == [L EXCEPT !.position = @ + n, !.column = @ + n]

throw(L, msg) == [L EXCEPT !.err = ParseError(msg, L.line, L.column)]

\* the first index from i on where the character is not in class Is
RunEnd(input, i, Is(_)) ==
  CHOOSE j \in i..(Len(input) + 1) :
    /\ j = Len(input) + 1 \/ ~Is(Ch(input, j))
    /\ \A k \in i..(j - 1) : Is(Ch(input, k))

HexDigits ==
  Digits \cup {"a", "b", "c", "d", "e", "f", "A", "B", "C", "D", "E", "F"}

HexVal(c) ==
  CASE c \in Digits -> DigitVal(c)
    [] c \in {"a", "A"} -> 10 [] c \in {"b", "B"} -> 11 [] c \in {"c", "C"} -> 12
    [] c \in {"d", "D"} -> 13 [] c \in {"e", "E"} -> 14 [] c \in {"f", "F"} -> 15

\* String.fromCharCode(n); a character the model's alphabet lacks is written "?"
fromCharCode(n) ==
  CASE n >= 32 /\ n <= 95 -> Ch(AsciiLow, n - 31)
    [] n >= 97 /\ n <= 126 -> Ch(AsciiHigh, n - 96)
    [] n = 9 -> "\t"
    [] n = 10 -> "\n"
    [] n = 13 -> "\r"
    [] OTHER -> "?"

\* one turn of the loop of scanString; s is [L, value]
scanStringTurn(input, s) ==
  LET L == s.L
      char == Ch(input, L.position)
      escaped == Ch(input, L.position + 1)
      hex == SubSeq(input, L.position + 2,
                    IF L.position + 5 <= Len(input) THEN L.position + 5 ELSE Len(input))
      plain(c) == [L |-> advance(L, 2), value |-> s.value \o c]
  IN  IF char = "\n" THEN [s EXCEPT !.L = throw(L, "Unterminated string")]
      ELSE IF char # "\\"
        THEN [L |-> advance(L, 1), value |-> s.value \o char]
      ELSE CASE escaped = "\"" -> plain("\"")
             [] escaped = "\\" -> plain("\\")
             [] escaped = "n" -> plain("\n")
             [] escaped = "t" -> plain("\t")
             [] escaped = "r" -> plain("\r")
             [] escaped = "u" ->
                  IF Len(hex) # 4 \/ \E i \in 1..Len(hex) : Ch(hex, i) \notin HexDigits
                    THEN [s EXCEPT !.L = throw(advance(L, 2), "Invalid unicode escape")]
                    ELSE [L |-> [advance(L, 3) EXCEPT !.position = @ + 3],
                          value |-> s.value
                                      \o fromCharCode(4096 * HexVal(Ch(hex, 1))
                                                        + 256 * HexVal(Ch(hex, 2))
                                                        + 16 * HexVal(Ch(hex, 3))
                                                        + HexVal(Ch(hex, 4)))]
             [] OTHER ->
                  [s EXCEPT !.L = throw(advance(L, 1), "Invalid escape sequence")]

\* the end of scanString, after its loop
stringToken(input, s) ==
  IF s.L.err.kind # "" THEN s.L
  ELSE IF s.L.position > Len(input) THEN throw(s.L, "Unterminated string")
  ELSE addToken(advance(s.L, 1), "STRING", s.value)

scanString(input, L) ==
  LET Turn(s) == scanStringTurn(input, s)
      Stop(s) == \/ s.L.err.kind # ""
                 \/ s.L.position > Len(input)
                 \/ Ch(input, s.L.position) = "\""
  IN  stringToken(input, Iterate(Turn, Stop, [L |-> advance(L, 1), value |-> ""]))

\* the lexer after a fraction that may start at p1
scanFraction(input, p1) ==
  IF Ch(input, p1) = "." /\ isDigit(Ch(input, p1 + 1))
    THEN RunEnd(input, p1 + 1, isDigit) ELSE p1

\* the lexer after an exponent that may start at p2
scanExponent(input, p2) ==
  IF Ch(input, p2) \in {"e", "E"}
    THEN RunEnd(input, IF Ch(input, p2 + 1) \in {"+", "-"} THEN p2 + 2 ELSE p2 + 1,
                isDigit)
    ELSE p2

numberToken(input, L, p3) ==
  addToken(advance(L, p3 - L.position), "NUMBER", SubSeq(input, L.position, p3 - 1))

scanNumber(input, L) ==
  numberToken(input, L,
    scanExponent(input,
      scanFraction(input,
        RunEnd(input,
               IF Ch(input, L.position) = "-" THEN L.position + 1 ELSE L.position,
               isDigit))))

wordToken(L, word) ==
  addToken(advance(L, Len(word)),
           IF word \in {"true", "false"} THEN "BOOLEAN"
           ELSE IF word = "null" THEN "NULL" ELSE "IDENTIFIER",
           word)

scanIdentifier(input, L) ==
  wordToken(L, SubSeq(input, L.position,
                      RunEnd(input, L.position, isIdentifierChar) - 1))

NotNewline(c) == c # "\n"

commentToken(L, lexeme) == addToken(advance(L, Len(lexeme)), "COMMENT", lexeme)

\* scanLineComment and scanHashComment: up to the end of the line
scanLineComment(input, L) ==
  commentToken(L, SubSeq(input, L.position,
                         RunEnd(input, L.position, NotNewline) - 1))

\* the lexer after the comment's text, which ends before end: a newline sets
\* column to 0 before the advance over it
blockScanned(L, end, newlines) ==
  IF newlines = {} THEN advance(L, end - L.position)
  ELSE [L EXCEPT !.position = end,
                 !.line = @ + Cardinality(newlines),
                 !.column = end - Nth(newlines, Cardinality(newlines))]

blockToken(input, L, end, unclosed, scanned) ==
  IF unclosed THEN throw(scanned, "Unterminated block comment")
  ELSE addToken(advance(scanned, 2), "COMMENT", SubSeq(input, L.position, end + 1))

blockTo(input, L, end, unclosed) ==
  blockToken(input, L, end, unclosed,
             blockScanned(L, end, {j \in (L.position + 2)..(end - 1) :
                                     Ch(input, j) = "\n"}))

blockClosedAt(input, L, closes) ==
  blockTo(input, L, IF closes = {} THEN Len(input) + 1 ELSE Nth(closes, 1),
          closes = {})

scanBlockComment(input, L) ==
  blockClosedAt(input, L, {j \in (L.position + 2)..(Len(input) - 1) :
                             Ch(input, j) = "*" /\ Ch(input, j + 1) = "/"})

\* the token type of a punctuation character, "" when it is none
Punctuation(char) ==
  CASE char = "|" -> "PIPE" [] char = "," -> "COMMA" [] char = "." -> "DOT"
    [] char = "{" -> "LBRACE" [] char = "}" -> "RBRACE"
    [] char = "[" -> "LBRACKET" [] char = "]" -> "RBRACKET"
    [] char = "(" -> "LPAREN" [] char = ")" -> "RPAREN"
    [] char = "@" -> "AT" [] char = "!" -> "BANG" [] char = "?" -> "QUESTION"
    [] char = "+" -> "PLUS" [] char = "-" -> "MINUS" [] char = "=" -> "EQUALS"
    [] char = "*" -> "ASTERISK" [] char = "~" -> "TILDE"
    [] OTHER -> ""

scanToken(input, L) ==
  LET char == Ch(input, L.position)
      next == Ch(input, L.position + 1)
  IN  CASE char \in {" ", "\r", "\t"} -> advance(L, 1)
        [] char = "\n" ->
             [addToken(L, "NEWLINE", char) EXCEPT
                !.position = @ + 1, !.line = @ + 1, !.column = 1]
        [] char = "/" /\ next = "/" -> scanLineComment(input, L)
        [] char = "/" /\ next = "*" -> scanBlockComment(input, L)
        [] char = "\"" -> scanString(input, L)
        [] isDigit(char) \/ (char = "-" /\ isDigit(next)) -> scanNumber(input, L)
        [] isIdentifierStart(char) -> scanIdentifier(input, L)
        [] char = ":" /\ next = ":" -> addToken(advance(L, 2), "DOUBLE_COLON", "::")
        [] char = ":" -> addToken(advance(L, 1), "COLON", ":")
        [] Punctuation(char) # "" -> addToken(advance(L, 1), Punctuation(char), char)
        [] char = "#" -> scanLineComment(input, L)
        [] OTHER -> throw(L, "Unexpected character")

\* tokenize(input): the lexer at its end, with the tokens or the error thrown
endOfInput(L) == IF L.err.kind # "" THEN L ELSE addToken(L, "EOF", "")

\* tokenize without the token for the end of the input
tokenizeNoEnd(input) ==
  LET Turn(L) == scanToken(input, L)
      Stop(L) == L.err.kind # "" \/ L.position > Len(input)
  IN  Iterate(Turn, Stop, NewLexer)

tokenize(input) ==
  LET Turn(L) == scanToken(input, L)
      Stop(L) == L.err.kind # "" \/ L.position > Len(input)
  IN  endOfInput(Iterate(Turn, Stop, NewLexer))

(***************************************************************************)
(* Numbers and strings read from text                                      *)
(***************************************************************************)
\* a number that is no integer, by its decimal text
Float(s) == [t |-> "float", v |-> s]

RECURSIVE Pow10(_)
Pow10(e) == IF e = 0 THEN 1 ELSE 10 * Pow10(e - 1)

\* the number written by the digits s[lo..hi]
DigitsValue(s, lo, hi) ==
  Sum([i \in 1..(hi - lo + 1) |-> DigitVal(Ch(s, lo + i - 1)) * Pow10(hi - lo + 1 - i)])

Least(S) == CHOOSE i \in S : \A j \in S : i <= j

\* the greatest member of S, d when S is empty
LastOr(S, d) == IF S = {} THEN d ELSE CHOOSE i \in S : \A j \in S : i >= j

trimTo(s, kept) == IF kept = {} THEN "" ELSE SubSeq(s, Least(kept), LastOr(kept, 0))

\* String.prototype.trim
trim(s) == trimTo(s, {i \in 1..Len(s) : Ch(s, i) \notin Whitespace})

\* n with the sign t starts with
Signed(t, n) == IF Ch(t, 1) = "-" THEN 0 - n ELSE n

IntDigits(t, p0, p1) ==
  IF p1 = p0 THEN NaN ELSE Num(Signed(t, DigitsValue(t, p0, p1 - 1)))

IntFrom(t, p0) == IntDigits(t, p0, DigitsEnd(t, p0))

IntOf(t) == IntFrom(t, IF Ch(t, 1) \in {"+", "-"} THEN 2 ELSE 1)

\* parseInt(s, 10): the longest prefix that is an integer, NaN when there is none
ParseInt(s) == IntOf(trim(s))

\* the number of the literal t: its integer digits are t[p0..p1-1], its fraction
\* t[p1+1..f1-1] and, without its trailing zeros, t[p1+1..fracEnd], and the
\* digits of its exponent t[e0..e1-1]
FloatValue(t, p0, p1, f1, e0, e1, hasExp, fracEnd, whole) ==
  IF p1 = p0 /\ f1 = p1 + 1 THEN NaN
  ELSE IF fracEnd < p1 + 1 /\ ~hasExp THEN Num(Signed(t, whole))
  ELSE IF fracEnd < p1 + 1 /\ Ch(t, e0 - 1) # "-"
    THEN Num(Signed(t, whole) * Pow10(DigitsValue(t, e0, e1 - 1)))
  ELSE IF ~hasExp
    THEN Float((IF Ch(t, 1) = "-" THEN "-" ELSE "") \o NatToString(whole) \o "."
                 \o SubSeq(t, p1 + 1, fracEnd))
  ELSE Float(SubSeq(t, 1, e1 - 1))

FloatParts(t, p0, p1, f1, p2, e0, e1) ==
  FloatValue(t, p0, p1, f1, e0, e1, Ch(t, p2) \in {"e", "E"} /\ e1 > e0,
             LastOr({i \in (p1 + 1)..(f1 - 1) : Ch(t, i) # "0"}, p1),
             DigitsValue(t, p0, p1 - 1))

FloatExponent(t, p0, p1, f1, p2, e0) ==
  FloatParts(t, p0, p1, f1, p2, e0, DigitsEnd(t, e0))

FloatMantissa(t, p0, p1, f1, p2) ==
  FloatExponent(t, p0, p1, f1, p2,
                IF Ch(t, p2 + 1) \in {"+", "-"} THEN p2 + 2 ELSE p2 + 1)

FloatFraction(t, p0, p1, f1) ==
  FloatMantissa(t, p0, p1, f1, IF Ch(t, p1) = "." THEN f1 ELSE p1)

FloatWhole(t, p0, p1) ==
  FloatFraction(t, p0, p1, IF Ch(t, p1) = "." THEN DigitsEnd(t, p1 + 1) ELSE p1 + 1)

FloatFrom(t, p0) == FloatWhole(t, p0, DigitsEnd(t, p0))

FloatOf(t) == FloatFrom(t, IF Ch(t, 1) \in {"+", "-"} THEN 2 ELSE 1)

\* parseFloat(s): the longest prefix that is a decimal literal.  A result that
\* is no integer is kept by its text; one with a fraction and an exponent is
\* kept as written.
ParseFloat(s) == FloatOf(trim(s))

\* a + b of two numbers; a sum with a fraction in it is kept as unknown text
AddNumbers(a, b) ==
  IF a.t = "nan" \/ b.t = "nan" THEN NaN
  ELSE IF a.t = "num" /\ b.t = "num" THEN Num(a.v + b.v)
  ELSE Float("")

\* String.prototype.split(sep) for a separator of one character
split(s, sep) ==
  LET NotSep(c) == c # sep
      Turn(p) == LET end == RunEnd(s, p.from, NotSep)
                 IN  [from |-> end + 1, parts |-> Append(p.parts, SubSeq(s, p.from, end - 1))]
      Stop(p) == p.from > Len(s) + 1
  IN  Iterate(Turn, Stop, [from |-> 1, parts |-> <<>>]).parts

\* String.prototype.lastIndexOf(c), counted from 1; 0 when c is absent
lastIndexOf(s, c) == LastOr({i \in 1..Len(s) : Ch(s, i) = c}, 0)

(***************************************************************************)
(* Decompressor (decoder/decompressor)                                     *)
(***************************************************************************)
\* parseValue(str) of the decompressor, t being the trimmed text
valueOfText(t) ==
  LET quoted(q) == Len(t) >= 1 /\ Ch(t, 1) = q /\ Ch(t, Len(t)) = q
  IN  IF quoted("\"") \/ quoted("'") THEN Str(SubSeq(t, 2, Len(t) - 1))
      ELSE IF t = "true" THEN Bool(TRUE)
      ELSE IF t = "false" THEN Bool(FALSE)
      ELSE IF t = "null" THEN Null
      ELSE IF LooksLikeNumber(t)
        THEN (IF Includes(t, ".") THEN ParseFloat(t) ELSE ParseInt(t))
      ELSE Str(t)

parseValueText(str) == valueOfText(trim(str))

\* count pushes of v; none when count is NaN
Pushes(v, count) ==
  [i \in 1..(IF count.t = "num" /\ count.v > 0 THEN count.v ELSE 0) |-> v]

rlePartAt(t, asteriskIdx) ==
  IF t = "" THEN <<>>
  ELSE IF asteriskIdx > 1
    THEN Pushes(parseValueText(SubSeq(t, 1, asteriskIdx - 1)),
                ParseInt(SubSeq(t, asteriskIdx + 1, Len(t))))
  ELSE <<parseValueText(t)>>

rlePart(t) == rlePartAt(t, lastIndexOf(t, "*"))

\* the values one part of an RLE payload stands for
decompressRLEPart(part) == rlePart(trim(part))

Flatten(lines) == FlattenRange(lines, 1, Len(lines))

rleParts(parts) == Flatten([p \in 1..Len(parts) |-> decompressRLEPart(parts[p])])

decompressRLE(encoded) == rleParts(split(encoded, "|"))

\* the running sum nums[1] + ... + nums[k]
deltaUpTo(nums, k) ==
  IF \E p \in 1..k : nums[p].t = "nan" THEN NaN
  ELSE IF \E p \in 1..k : nums[p].t = "float"
    THEN (IF k = 1 THEN nums[1] ELSE Float(""))
  ELSE Num(SumRange([p \in 1..k |-> nums[p].v], 1, k))

deltaSums(nums) == [k \in 1..Len(nums) |-> deltaUpTo(nums, k)]

deltaNumbers(parts) == [p \in 1..Len(parts) |-> ParseFloat(trim(parts[p]))]

decompressDelta(encoded) == deltaSums(deltaNumbers(split(encoded, "|")))

\* dict[idx] ?? ''
decompressDictionary(dict, indices) ==
  [i \in 1..Len(indices) |->
     IF indices[i] >= 0 /\ indices[i] < Len(dict) THEN Str(dict[indices[i] + 1])
     ELSE Str("")]

stripOpen(t) == IF Ch(t, 1) = "[" THEN SubSeq(t, 2, Len(t)) ELSE t

stripClose(c) ==
  IF Len(c) >= 1 /\ Ch(c, Len(c)) = "]" THEN SubSeq(c, 1, Len(c) - 1) ELSE c

trimAll(parts) == [p \in 1..Len(parts) |-> trim(parts[p])]

parseDictionary(encoded) == trimAll(split(stripClose(stripOpen(trim(encoded))), ","))

IsInt(n) == n.t = "num"

intsOf(parts) == [p \in 1..Len(parts) |-> ParseInt(trim(parts[p]))]

numbersOf(kept) == [i \in 1..Len(kept) |-> kept[i].v]

parseIndices(encoded) == numbersOf(SelectSeq(intsOf(split(encoded, ",")), IsInt))

(***************************************************************************)
(* Parser (decoder/parser).  T is the parser's token list, cur the index   *)
(* of the current token counted from 1, and every parsing function returns *)
(* the node it built with the index after it, or the error it threw.       *)
(***************************************************************************)
PrimitiveNode(valueType, v) == [type |-> "primitive", valueType |-> valueType, value |-> v]

ObjectNode(fields) == [type |-> "object", fields |-> fields]

\* an array without a name has name ""
ArrayNode(name, count, items) ==
  [type |-> "array", name |-> name, count |-> count, items |-> items]

\* Map.prototype.set: a key already present keeps its place
MapSet(m, k, v) ==
  IF \E i \in 1..Len(m) : m[i].k = k
    THEN [i \in 1..Len(m) |-> IF m[i].k = k THEN Entry(k, v) ELSE m[i]]
    ELSE Append(m, Entry(k, v))

MapHas(m, k) == \E i \in 1..Len(m) : m[i].k = k

MapGet(m, k) == m[CHOOSE i \in 1..Len(m) : m[i].k = k].v

Parsed(cur, node) == [err |-> NoError, cur |-> cur, node |-> node]

isAtEnd(T, cur) == cur > Len(T) \/ T[cur].type = "EOF"

check(T, cur, type) == ~isAtEnd(T, cur) /\ T[cur].type = type

\* this.error(message): the error at the current token
error(T, cur, msg) ==
  [err |-> ParseError(msg, T[cur].line, T[cur].column), cur |-> cur, node |-> Null]

\* peekAhead(1)?.type === type
peekAheadIs(T, cur, type) == cur + 1 <= Len(T) /\ T[cur + 1].type = type

\* the index after skipWhitespace()
skipWhitespace(T, cur) ==
  LET Blank(j) == check(T, j, "NEWLINE") \/ check(T, j, "INDENT")
  IN  CHOOSE j \in cur..(Len(T) + 1) : ~Blank(j) /\ \A k \in cur..(j - 1) : Blank(k)

inferValueType(v) ==
  CASE v.t = "null" -> "null"
    [] v.t = "bool" -> "bool"
    [] v.t = "num" -> "i32"
    [] v.t \in {"float", "nan"} -> "f32"
    [] OTHER -> "str"

\* token.value.includes('.') ? parseFloat(token.value) : parseInt(token.value, 10)
NumberOf(lexeme) == IF Includes(lexeme, ".") THEN ParseFloat(lexeme) ELSE ParseInt(lexeme)

\* parsePrimitive once the whitespace is skipped
primitiveAt(T, cur) ==
  CASE check(T, cur, "STRING") -> Parsed(cur + 1, PrimitiveNode("str", Str(T[cur].value)))
    [] check(T, cur, "NUMBER") ->
         Parsed(cur + 1, PrimitiveNode(IF Includes(T[cur].value, ".") THEN "f32" ELSE "i32",
                                       NumberOf(T[cur].value)))
    [] check(T, cur, "BOOLEAN") ->
         Parsed(cur + 1, PrimitiveNode("bool", Bool(T[cur].value = "true")))
    [] check(T, cur, "NULL") -> Parsed(cur + 1, PrimitiveNode("null", Null))
    [] check(T, cur, "IDENTIFIER") ->
         Parsed(cur + 1, PrimitiveNode("str", Str(T[cur].value)))
    [] OTHER -> error(T, cur, "Expected primitive value")

parsePrimitive(T, cur0) == primitiveAt(T, skipWhitespace(T, cur0))

parseRowValue(T, cur, fieldType) ==
  CASE check(T, cur, "STRING") -> Parsed(cur + 1, PrimitiveNode("str", Str(T[cur].value)))
    [] check(T, cur, "NUMBER") ->
         Parsed(cur + 1, PrimitiveNode(IF Ch(fieldType, 1) = "f" THEN "f32" ELSE "i32",
                                       NumberOf(T[cur].value)))
    [] check(T, cur, "BOOLEAN") ->
         Parsed(cur + 1, PrimitiveNode("bool", Bool(T[cur].value = "true")))
    [] check(T, cur, "NULL") -> Parsed(cur + 1, PrimitiveNode("null", Null))
    [] check(T, cur, "TILDE") -> Parsed(cur + 1, PrimitiveNode("null", Null))
    [] check(T, cur, "IDENTIFIER") ->
         Parsed(cur + 1, PrimitiveNode("str", Str(T[cur].value)))
    [] OTHER -> error(T, cur, "Expected value")

\* a field definition that ends before c
fieldDef(T, cur, c, typed) ==
  [err |-> NoError, cur |-> c, fieldName |-> T[cur].value,
   fieldType |-> IF typed THEN split(T[cur + 2].value, "@")[1] ELSE "str"]

fieldDefError(T, c, msg) ==
  [err |-> error(T, c, msg).err, cur |-> c, fieldName |-> "", fieldType |-> ""]

\* the definition of a field at cur, c1 being the index after its name and type
fieldDefAt(T, cur, c1, typed) ==
  IF ~check(T, cur, "IDENTIFIER") THEN fieldDefError(T, cur, "Expected field name")
  ELSE IF typed /\ ~check(T, cur + 2, "IDENTIFIER")
    THEN fieldDefError(T, cur + 2, "Expected type name")
  ELSE IF check(T, c1, "AT")
    THEN (IF check(T, c1 + 1, "IDENTIFIER") THEN fieldDef(T, cur, c1 + 2, typed)
          ELSE fieldDefError(T, c1 + 1, "Expected compression type"))
  ELSE fieldDef(T, cur, c1, typed)

\* the definition of one field: its name, its type and the index after it
parseFieldDef(T, cur) ==
  IF check(T, cur + 1, "COLON") THEN fieldDefAt(T, cur, cur + 3, TRUE)
  ELSE fieldDefAt(T, cur, cur + 1, FALSE)

\* fieldDefs.push and fieldTypes.push of the definition d
addFieldDef(s, d) ==
  IF d.err.kind # "" THEN [s EXCEPT !.err = d.err]
  ELSE [s EXCEPT !.cur = d.cur,
                 !.fieldDefs = Append(@, d.fieldName),
                 !.fieldTypes = Append(@, d.fieldType)]

noFieldDefs(cur) ==
  [err |-> NoError, cur |-> cur, fieldDefs |-> <<>>, fieldTypes |-> <<>>]

\* the field definitions of a compact header, from the first one on
parseFieldDefs(T, cur) ==
  LET Turn(s) == addFieldDef(s, parseFieldDef(T, s.cur + 1))
      Stop(s) == s.err.kind # "" \/ ~check(T, s.cur, "PIPE")
  IN  IF ~check(T, cur, "IDENTIFIER") THEN noFieldDefs(cur)
      ELSE Iterate(Turn, Stop, addFieldDef(noFieldDefs(cur), parseFieldDef(T, cur)))

\* the token at j belongs to the data of a directive
directiveData(T, j) ==
  ~check(T, j, "NEWLINE") /\ ~check(T, j, "AT") /\ ~isAtEnd(T, j)

\* the index after the data that starts at c
directiveDataEnd(T, c) ==
  CHOOSE j \in c..(Len(T) + 1) :
    ~directiveData(T, j) /\ \A k \in c..(j - 1) : directiveData(T, k)

noDirective(j) ==
  [isNull |-> TRUE, cur |-> j, type |-> "", field |-> "", data |-> ""]

directiveWith(T, cur, c, end) ==
  [isNull |-> FALSE, cur |-> end, type |-> T[cur + 1].value,
   field |-> T[cur + 3].value,
   data |-> Join([k \in 1..(end - c) |-> T[c + k - 1].value], "")]

directiveFrom(T, cur, c) == directiveWith(T, cur, c, directiveDataEnd(T, c))

\* the directive read at an "@", the index after it, and whether it is one
parseCompressionDirective(T, cur) ==
  IF ~check(T, cur + 1, "IDENTIFIER") THEN noDirective(cur + 1)
  ELSE IF ~check(T, cur + 2, "COLON") THEN noDirective(cur + 2)
  ELSE IF ~check(T, cur + 3, "IDENTIFIER") THEN noDirective(cur + 3)
  ELSE directiveFrom(T, cur, skipWhitespace(T, cur + 4))

\* compressionData.set(field, values)
setColumn(s, field, after, vs) ==
  [s EXCEPT !.cur = after, !.compressionData = MapSet(@, field, vs)]

\* what the loop does with the directive d, after being the index after it
applyDirective(s, d, after) ==
  CASE d.type = "dict" ->
         [s EXCEPT !.cur = after,
                   !.dictionaries = MapSet(@, d.field, parseDictionary(d.data))]
    [] d.type = "idx" ->
         IF MapHas(s.dictionaries, d.field)
           THEN setColumn(s, d.field, after,
                          decompressDictionary(MapGet(s.dictionaries, d.field),
                                               parseIndices(d.data)))
           ELSE [s EXCEPT !.cur = after]
    [] d.type = "rle" -> setColumn(s, d.field, after, decompressRLE(d.data))
    [] d.type = "delta" -> setColumn(s, d.field, after, decompressDelta(d.data))
    [] OTHER -> [s EXCEPT !.cur = after]

directiveRead(T, s, d) ==
  IF d.isNull THEN [s EXCEPT !.cur = d.cur, !.broke = TRUE]
  ELSE applyDirective(s, d, skipWhitespace(T, d.cur))

\* the loop over the directive lines; s is [cur, compressionData, dictionaries, broke]
directiveTurn(T, s) == directiveRead(T, s, parseCompressionDirective(T, s.cur))

\* a column read at its first element whatever the row
ColumnAtFirst(values, i) == IF 1 <= Len(values) THEN values[1] ELSE Undef

\* values[i] of a decompressed column, i counted from 0
ColumnAt(values, i) == IF i + 1 <= Len(values) THEN values[i + 1] ELSE Undef

\* the node of a value taken from a decompressed column
columnNode(v) == PrimitiveNode(inferValueType(v), v)

\* the value of one field of row i: from its column, or from the row's text
rowField(T, s, i, h, compressionData, fieldName) ==
  IF MapHas(compressionData, fieldName)
    THEN Parsed(IF check(T, s.cur, "TILDE") THEN s.cur + 1 ELSE s.cur,
                columnNode(ColumnAt(MapGet(compressionData, fieldName), i)))
    ELSE parseRowValue(T, s.cur, h.fieldTypes[s.j + 1])

rowFieldRead(T, s, fieldName, r, last) ==
  IF r.err.kind # "" THEN [s EXCEPT !.err = r.err]
  ELSE IF ~last /\ ~check(T, r.cur, "PIPE")
    THEN [s EXCEPT !.err = error(T, r.cur, "Expected \"|\" between fields").err]
  ELSE [s EXCEPT !.cur = IF last THEN r.cur ELSE r.cur + 1,
                 !.row = MapSet(@, fieldName, r.node),
                 !.j = @ + 1]

\* one field of one row; s is [cur, row, j, err]
rowFieldTurn(T, s, i, h, compressionData) ==
  rowFieldRead(T, s, h.fieldDefs[s.j + 1],
               rowField(T, s, i, h, compressionData, h.fieldDefs[s.j + 1]),
               s.j >= Len(h.fieldDefs) - 1)

\* the loop over the fields of row i, which starts at c
rowFields(T, i, h, compressionData, c) ==
  LET Turn(f) == rowFieldTurn(T, f, i, h, compressionData)
      Stop(f) == f.err.kind # "" \/ f.j >= Len(h.fieldDefs)
  IN  Iterate(Turn, Stop, [cur |-> c, row |-> <<>>, j |-> 0, err |-> NoError])

rowRead(T, s, f) ==
  IF f.err.kind # "" THEN [s EXCEPT !.err = f.err]
  ELSE [s EXCEPT !.cur = skipWhitespace(T, f.cur),
                 !.items = Append(@, ObjectNode(f.row)),
                 !.i = @ + 1]

rowAt(T, s, h, compressionData, c) ==
  IF isAtEnd(T, c) THEN [s EXCEPT !.cur = c, !.broke = TRUE]
  ELSE rowRead(T, s, rowFields(T, s.i, h, compressionData, c))

\* one row; s is [cur, items, i, err, broke]
rowTurn(T, s, h, compressionData) ==
  rowAt(T, s, h, compressionData, skipWhitespace(T, s.cur))

\* the index where key is set last
lastSet(all, key) ==
  CHOOSE k \in 1..Len(all) :
    all[k].k = key /\ \A m \in (k + 1)..Len(all) : all[m].k # key

\* row.set(field, ...) over the entries, a repeated name set twice
rowMap(all, firsts) ==
  ObjectNode([n \in 1..Cardinality(firsts) |->
                all[lastSet(all, all[Nth(firsts, n)].k)]])

rowOf(all) ==
  rowMap(all, {j \in 1..Len(all) : \A k \in 1..(j - 1) : all[k].k # all[j].k})

\* row i of an array whose fields are all compressed
builtRow(h, compressionData, i) ==
  rowOf([j \in 1..Len(h.fieldDefs) |->
           Entry(h.fieldDefs[j],
                 columnNode(ColumnAt(MapGet(compressionData, h.fieldDefs[j]), i)))])

\* the loop over the rows
arrayRows(T, count, h, d) ==
  LET RTurn(s) == rowTurn(T, s, h, d.compressionData)
      RStop(s) == s.err.kind # "" \/ s.broke \/ s.i >= count
  IN  Iterate(RTurn, RStop, [cur |-> d.cur, items |-> <<>>, i |-> 0,
                             err |-> NoError, broke |-> FALSE])

rowsNode(name, count, s) ==
  IF s.err.kind # "" THEN [err |-> s.err, cur |-> s.cur, node |-> Null]
  ELSE Parsed(s.cur, ArrayNode(name, count, s.items))

allFieldsCompressed(h, compressionData) ==
  \A j \in 1..Len(h.fieldDefs) : MapHas(compressionData, h.fieldDefs[j])

\* the array after its directives d
arrayItems(T, name, count, h, d) ==
  IF allFieldsCompressed(h, d.compressionData) /\ Len(d.compressionData) > 0
    THEN Parsed(d.cur, ArrayNode(name, count,
                                 [i \in 1..count |->
                                    builtRow(h, d.compressionData, i - 1)]))
  ELSE rowsNode(name, count, arrayRows(T, count, h, d))

\* the loop over the directive lines, from c2
arrayDirectives(T, c2) ==
  LET DTurn(s) == directiveTurn(T, s)
      DStop(s) == s.broke \/ ~check(T, s.cur, "AT")
  IN  Iterate(DTurn, DStop, [cur |-> c2, compressionData |-> <<>>,
                             dictionaries |-> <<>>, broke |-> FALSE])

\* the index after an optional ":" at c1
afterColon(T, c1) == IF check(T, c1, "COLON") THEN skipWhitespace(T, c1 + 1) ELSE c1

\* the array after its header h
arrayAfterHeader(T, name, count, h) ==
  IF h.err.kind # "" THEN [err |-> h.err, cur |-> h.cur, node |-> Null]
  ELSE arrayItems(T, name, count, h,
                  arrayDirectives(T, afterColon(T, skipWhitespace(T, h.cur))))

parseArrayBody(T, cur, name) ==
  IF ~check(T, cur, "LBRACKET") THEN error(T, cur, "Expected \"[\"")
  ELSE IF ~check(T, cur + 1, "NUMBER") THEN error(T, cur + 1, "Expected array count")
  ELSE IF ~check(T, cur + 2, "RBRACKET") THEN error(T, cur + 2, "Expected \"]\"")
  ELSE arrayAfterHeader(T, name, ParseInt(T[cur + 1].value).v,
                        parseFieldDefs(T, skipWhitespace(T, cur + 3)))

inlineItemRead(T, s, count, r) ==
  IF r.err.kind # "" THEN [s EXCEPT !.cur = r.cur, !.err = r.err]
  ELSE [s EXCEPT !.cur = IF s.i < count - 1 /\ check(T, r.cur, "COMMA")
                            THEN skipWhitespace(T, r.cur + 1) ELSE r.cur,
                 !.items = Append(@, r.node),
                 !.i = @ + 1]

inlineItemAt(T, s, count, c) ==
  IF isAtEnd(T, c) THEN [s EXCEPT !.cur = c, !.broke = TRUE]
  ELSE inlineItemRead(T, s, count, parsePrimitive(T, c))

\* one item of an inline array; s is [cur, items, i, err, broke]
inlineItemTurn(T, s, count) == inlineItemAt(T, s, count, skipWhitespace(T, s.cur))

\* the loop over the items
inlineItems(T, cur, count) ==
  LET Turn(s) == inlineItemTurn(T, s, count)
      Stop(s) == s.err.kind # "" \/ s.broke \/ s.i >= count
  IN  Iterate(Turn, Stop, [cur |-> skipWhitespace(T, cur + 4), items |-> <<>>,
                           i |-> 0, err |-> NoError, broke |-> FALSE])

inlineArrayOf(T, cur, count) == rowsNode("", count, inlineItems(T, cur, count))

parseInlineArray(T, cur) ==
  IF ~check(T, cur, "LBRACKET") THEN error(T, cur, "Expected \"[\"")
  ELSE IF ~check(T, cur + 1, "NUMBER") THEN error(T, cur + 1, "Expected array count")
  ELSE IF ~check(T, cur + 2, "RBRACKET") THEN error(T, cur + 2, "Expected \"]\"")
  ELSE IF ~check(T, cur + 3, "COLON") THEN error(T, cur + 3, "Expected \":\"")
  ELSE inlineArrayOf(T, cur, ParseInt(T[cur + 1].value).v)

RECURSIVE parseObject(_, _)

\* parseValue once the whitespace is skipped
valueAt(T, cur) ==
  IF check(T, cur, "LBRACE") THEN parseObject(T, cur)
  ELSE IF check(T, cur, "LBRACKET") THEN parseInlineArray(T, cur)
  ELSE parsePrimitive(T, cur)

parseValue(T, cur0) == valueAt(T, skipWhitespace(T, cur0))

\* fields.set(name, node), and the comma after the field
objectFieldSet(T, s, name, node, c4) ==
  [s EXCEPT !.cur = IF check(T, c4, "COMMA") THEN skipWhitespace(T, c4 + 1) ELSE c4,
            !.fields = MapSet(@, name, node)]

\* the field's value r, which for a compact array is kept without its name
objectFieldRead(T, s, name, r, compact) ==
  IF r.err.kind # "" THEN [s EXCEPT !.cur = r.cur, !.err = r.err]
  ELSE objectFieldSet(T, s, name,
                      IF compact THEN ArrayNode("", r.node.count, r.node.items)
                      ELSE r.node,
                      skipWhitespace(T, r.cur))

\* the value of the field, after its name and colon: a compact array when a
\* second colon follows, and otherwise a value, after its type annotation if any
objectFieldValue(T, s, name, c3) ==
  IF check(T, c3, "COLON")
    THEN objectFieldRead(T, s, name,
                         parseArrayBody(T, skipWhitespace(T, c3 + 1), name), TRUE)
    ELSE objectFieldRead(T, s, name,
                         parseValue(T, IF check(T, c3, "IDENTIFIER")
                                            /\ peekAheadIs(T, c3, "COLON")
                                         THEN skipWhitespace(T, c3 + 2) ELSE c3),
                         FALSE)

objectFieldColon(T, s, c1, c2) ==
  IF ~check(T, c2, "COLON")
    THEN [s EXCEPT !.cur = c2,
                   !.err = error(T, c2, "Expected \":\" after field name").err]
  ELSE objectFieldValue(T, s, T[c1].value, skipWhitespace(T, c2 + 1))

objectFieldAt(T, s, c1) ==
  IF ~check(T, c1, "IDENTIFIER")
    THEN [s EXCEPT !.cur = c1, !.err = error(T, c1, "Expected field name").err]
  ELSE objectFieldColon(T, s, c1, skipWhitespace(T, c1 + 1))

\* one field of an object; s is [cur, fields, err]
objectFieldTurn(T, s) == objectFieldAt(T, s, skipWhitespace(T, s.cur))

\* the loop over the fields
objectFields(T, cur) ==
  LET Turn(s) == objectFieldTurn(T, s)
      Stop(s) == s.err.kind # "" \/ check(T, s.cur, "RBRACE") \/ isAtEnd(T, s.cur)
  IN  Iterate(Turn, Stop, [cur |-> skipWhitespace(T, cur + 1), fields |-> <<>>,
                           err |-> NoError])

objectEnd(T, s) ==
  IF s.err.kind # "" THEN [err |-> s.err, cur |-> s.cur, node |-> Null]
  ELSE IF ~check(T, s.cur, "RBRACE") THEN error(T, s.cur, "Expected \"}\"")
  ELSE Parsed(s.cur + 1, ObjectNode(s.fields))

parseObject(T, cur) ==
  IF ~check(T, cur, "LBRACE") THEN error(T, cur, "Expected \"{\"")
  ELSE objectEnd(T, objectFields(T, cur))

parseArray(T, cur) ==
  LET named == check(T, cur, "IDENTIFIER")
      c == IF named THEN cur + 1 ELSE cur
  IN  IF ~check(T, c, "DOUBLE_COLON") THEN error(T, c, "Expected \"::\"")
      ELSE parseArrayBody(T, c + 1, IF named THEN T[cur].value ELSE "")

\* the constructor of Parser: the tokens without the comments
ParserTokens(tokens) ==
  LET NotComment(t) == t.type # "COMMENT"
  IN  SelectSeq(tokens, NotComment)

\* parse(tokens): the tree, or the error thrown
\* a named array at the top is an object with the one field
namedArray(array) ==
  IF array.err.kind = "" /\ array.node.name # ""
    THEN Parsed(array.cur,
                ObjectNode(<<Entry(array.node.name,
                                   ArrayNode("", array.node.count, array.node.items))>>))
    ELSE array

namedValue(name, named) ==
  IF named.err.kind = ""
    THEN Parsed(named.cur, ObjectNode(<<Entry(name, named.node)>>))
    ELSE named

parseAt(T, cur) ==
  IF isAtEnd(T, cur)
    THEN [err |-> ParseError("Empty input", 1, 1), cur |-> cur, node |-> Null]
  ELSE IF check(T, cur, "IDENTIFIER") /\ peekAheadIs(T, cur, "DOUBLE_COLON")
    THEN namedArray(parseArray(T, cur))
  ELSE IF check(T, cur, "IDENTIFIER") /\ peekAheadIs(T, cur, "COLON")
    THEN namedValue(T[cur].value, parseValue(T, skipWhitespace(T, cur + 2)))
  ELSE IF check(T, cur, "LBRACKET") THEN parseInlineArray(T, cur)
  ELSE IF check(T, cur, "DOUBLE_COLON") THEN parseArray(T, cur)
  ELSE parseValue(T, cur)

parseTokens(T) == parseAt(T, skipWhitespace(T, 1))

parse(tokens) == parseTokens(ParserTokens(tokens))

(***************************************************************************)
(* Builder (decoder/builder) and decode                                    *)
(***************************************************************************)
RECURSIVE build(_)
build(node) ==
  CASE node.type = "object" ->
         Obj([i \in 1..Len(node.fields) |->
                Entry(node.fields[i].k, build(node.fields[i].v))])
    [] node.type = "array" -> Arr([i \in 1..Len(node.items) |-> build(node.items[i])])
    [] node.type = "primitive" -> node.value

buildObject(ast) == build(ast)

\* decode(input): the value built, or the error thrown
built(ast) ==
  IF ast.err.kind # "" THEN [err |-> ast.err, value |-> Undef]
  ELSE [err |-> NoError, value |-> buildObject(ast.node)]

decodeTokens(lexed) ==
  IF lexed.err.kind # "" THEN [err |-> lexed.err, value |-> Undef]
  ELSE built(parse(lexed.tokens))

decode(input) == decodeTokens(tokenize(input))

(***************************************************************************)
(* Field type inference over bounded columns                               *)
(***************************************************************************)
(* Variable-length integers (compression/varint)                           *)
(***************************************************************************)
\* a JavaScript number that is an integer, by its sign and its magnitude
\* hi * 65536 + lo, lo below 65536
Integer(neg, hi, lo) == [neg |-> neg, hi |-> hi, lo |-> lo]

\* the integer n, for 0 <= n < 2^31
Small(n) == Integer(FALSE, n \div 65536, n % 65536)

\* remaining > 127
Above127(n) == n.hi > 0 \/ n.lo > 127

\* remaining & 0x7f
Low7(n) == n.lo % 128

\* remaining >>> 7, of the low 32 bits of remaining
ShiftRight7(n) == Small((n.hi % 65536) * 512 + n.lo \div 128)

\* the last byte, without the continuation bit
lastByte(s) == [err |-> "", bytes |-> Append(s.bytes, Low7(s.remaining))]

encodeVarint(n) ==
  IF n.neg THEN [err |-> "Varint requires non-negative integer", bytes |-> <<>>]
  ELSE LET Turn(s) == [bytes |-> Append(s.bytes, Low7(s.remaining) + 128),
                       remaining |-> ShiftRight7(s.remaining)]
           Stop(s) == ~Above127(s.remaining)
       IN  lastByte(Iterate(Turn, Stop, [bytes |-> <<>>, remaining |-> n]))

\* a | b for a and b below 65536
RECURSIVE Or16(_, _)
Or16(a, b) ==
  IF a = 0 THEN b
  ELSE IF b = 0 THEN a
  ELSE 2 * Or16(a \div 2, b \div 2) + (IF a % 2 = 1 \/ b % 2 = 1 THEN 1 ELSE 0)

\* the signed 32-bit integer of the halves hi and lo
ToInt32(hi, lo) == (IF hi >= 32768 THEN hi - 65536 ELSE hi) * 65536 + lo

\* a | b for signed 32-bit a and b
Or32(a, b) ==
  ToInt32(Or16((a \div 65536) % 65536, (b \div 65536) % 65536),
          Or16(a % 65536, b % 65536))

\* the signed 32-bit integer of the low 32 - by bits of x, moved up by bits
ShiftedOut(y, m, by) == IF 2 * y >= m THEN (y - m) * Pow2(by) ELSE y * Pow2(by)

\* x << shift for 0 <= x <= 127: the count is taken modulo 32
ShiftLeftBy(x, by) ==
  IF by <= 24 THEN x * Pow2(by)
  ELSE ShiftedOut(x % Pow2(32 - by), Pow2(32 - by), by)

ShiftLeft(x, shift) == ShiftLeftBy(x, shift % 32)

decodeVarintFrom(s) ==
  IF s.returned THEN [err |-> "", value |-> s.result]
  ELSE [err |-> "Invalid varint: missing terminator", value |-> 0]

decodeVarint(bs) ==
  LET Turn(s) == [i |-> s.i + 1,
                  result |-> Or32(s.result, ShiftLeft(bs[s.i] % 128, s.shift)),
                  shift |-> s.shift + 7,
                  returned |-> (bs[s.i] \div 128) % 2 = 0]
      Stop(s) == s.returned \/ s.i > Len(bs)
  IN  decodeVarintFrom(Iterate(Turn, Stop,
                               [i |-> 1, result |-> 0, shift |-> 0, returned |-> FALSE]))

\* value < limit, for a limit below 2^31
Below(n, limit) ==
  n.hi < limit \div 65536 \/ (n.hi = limit \div 65536 /\ n.lo < limit % 65536)

getVarintLength(n) ==
  IF n.neg \/ Below(n, 0) THEN 5
  ELSE IF Below(n, 128) THEN 1
  ELSE IF Below(n, 16384) THEN 2
  ELSE IF Below(n, 2097152) THEN 3
  ELSE IF Below(n, 268435456) THEN 4
  ELSE 5

(***************************************************************************)
MaxColumn == 3

ColumnPool ==
  {Num(5), Num(300), Num(-1), Num(1), Num(-200), Num(70000), Num(-40000), Null}

Columns == UNION {[1..n -> ColumnPool] : n \in 1..MaxColumn}

RowsOf(col, field) == [i \in 1..Len(col) |-> Obj(<<Entry(field, col[i])>>)]

NoOpts == [mode |-> "auto", compression |-> FALSE, delimiter |-> "|", indent |-> 2]

\* before encode and before decode have run
NotYet == [err |-> "none", s |-> ""]

NoBytes == [err |-> "none", bytes |-> <<>>]

NoNumber == [err |-> "none", value |-> 0]

NotResolved == [kind |-> "none", fields |-> <<>>]

NotDecoded == [err |-> [kind |-> "none", msg |-> "", line |-> 0, column |-> 0],
               value |-> Undef]

InitInfer ==
  /\ pc = "column"
  /\ value \in {Arr(RowsOf(col, "n")) : col \in Columns}
  /\ opts = NoOpts
  /\ doc = ""
  /\ text = NotYet
  /\ decoded = NotDecoded
  /\ retext = NotYet
  /\ ftype = ""
  /\ advice = <<>>
  /\ serializationStack = {}
  /\ frames = <<>>
  /\ schemas = <<>>
  /\ resolved = NotResolved
  /\ number = NoNumber
  /\ bytes = NoBytes
  /\ lexer = NewLexer
  /\ selected = ""

InferField ==
  /\ pc = "column"
  /\ ftype' = inferTypeForField(Children(value, Root), "n")
  /\ pc' = "inferred"
  /\ UNCHANGED <<value, opts, doc, text, decoded, retext, advice, selected,
                 lexer, bytes, number, serializationStack, frames, schemas,
                 resolved>>

NextInfer == InferField

SpecInfer == InitInfer /\ [][NextInfer]_vars

ColumnOf(x) == [i \in 1..Len(x.v) |-> Get(x.v[i], "n")]

\* the integers an integer type holds, as a predicate
Holds(ty, n) ==
  CASE ty = "u8" -> n >= 0 /\ n <= 255
    [] ty = "u16" -> n >= 0 /\ n <= 65535
    [] ty = "u32" -> n >= 0 /\ LeU32Max(n)
    [] ty = "u64" -> n >= 0
    [] ty = "i8" -> n >= -128 /\ n <= 127
    [] ty = "i16" -> n >= -32768 /\ n <= 32767
    [] ty = "i32" -> GeI32Min(n) /\ n <= 2147483647
    [] ty = "i64" -> TRUE
    [] OTHER -> FALSE

HoldsAll(ty, col) == \A i \in 1..Len(col) : col[i].t = "num" => Holds(ty, col[i].v)

HasNum(col) == \E i \in 1..Len(col) : col[i].t = "num"

\* the narrowest integer type that holds every number of the column
Narrowest(col) ==
  IF \A i \in 1..Len(col) : col[i].t = "num" => col[i].v >= 0
    THEN CHOOSE ty \in {"u8", "u16", "u32", "u64"} :
           /\ HoldsAll(ty, col)
           /\ \A o \in {"u8", "u16", "u32", "u64"} :
                HoldsAll(o, col) => TypeBits(ty) <= TypeBits(o)
    ELSE CHOOSE ty \in {"i8", "i16", "i32", "i64"} :
           /\ HoldsAll(ty, col)
           /\ \A o \in {"i8", "i16", "i32", "i64"} :
                HoldsAll(o, col) => TypeBits(ty) <= TypeBits(o)

ForcedModes == {"compact", "nested", "columnar", "stream", "sparse", "json"}

Options(mode, compression) ==
  [mode |-> mode, compression |-> compression, delimiter |-> "|", indent |-> 2]

User(id, name, role) ==
  Obj(<<Entry("id", Num(id)), Entry("name", Str(name)), Entry("role", Str(role))>>)

Users == Arr(<<User(1, "Alice", "admin"), User(2, "Bob Lee", "user")>>)

\* n rows {status, n}: the first a rows hold st1, the rest st2
StatusRows(n, a, st1, st2) ==
  Arr([i \in 1..n |-> Obj(<<Entry("status", Str(IF i <= a THEN st1 ELSE st2)),
                            Entry("n", Num(7))>>)])

\* values without cycles, nested at most three levels deep
RoundTripValues ==
  { Num(5), Num(-3), Str("x"), Str("a b"), Bool(TRUE), Null,
    Obj(<<Entry("a", Num(1)), Entry("b", Str("x"))>>),
    Obj(<<Entry("a", Arr(<<Num(1), Num(2)>>))>>),
    Obj(<<Entry("a", Null)>>),
    Obj(<<Entry("o", Obj(<<Entry("q", Num(1))>>)), Entry("k", Bool(FALSE))>>),
    Arr(<<Num(1), Num(2)>>),
    Arr(<<>>),
    Users,
    Obj(<<Entry("users", Users)>>),
    StatusRows(10, 6, "active", "pending"),
    StatusRows(10, 6, "on hold", "7") }

\* a === b for primitives, the same keys in the same order and the same items
\* for containers
RECURSIVE SameValue(_, _)
SameValue(a, b) ==
  /\ a.t = b.t
  /\ CASE a.t \in {"null", "undef"} -> TRUE
       [] a.t = "nan" -> FALSE
       [] a.t \in {"arr", "obj"} ->
            /\ Len(a.v) = Len(b.v)
            /\ \A i \in 1..Len(a.v) :
                 IF a.t = "arr" THEN SameValue(a.v[i], b.v[i])
                 ELSE a.v[i].k = b.v[i].k /\ SameValue(a.v[i].v, b.v[i].v)
       [] OTHER -> a.v = b.v

Init ==
  /\ pc = "start"
  /\ value \in RoundTripValues
  /\ opts \in {Options(m, c) : m \in ForcedModes, c \in BOOLEAN}
  /\ doc = ""
  /\ text = NotYet
  /\ decoded = NotDecoded
  /\ retext = NotYet
  /\ ftype = ""
  /\ advice = <<>>
  /\ serializationStack = {}
  /\ frames = <<>>
  /\ schemas = <<>>
  /\ resolved = NotResolved
  /\ number = NoNumber
  /\ bytes = NoBytes
  /\ lexer = NewLexer
  /\ selected = ""

\* text = encode(value, opts)
Encode ==
  /\ pc = "start"
  /\ text' = encode(value, opts)
  /\ pc' = "encoded"
  /\ UNCHANGED <<value, opts, doc, decoded, retext, ftype, advice, selected,
                 lexer, bytes, number, serializationStack, frames, schemas,
                 resolved>>

\* decoded = decode(text)
Decode ==
  /\ pc = "encoded"
  /\ IsOk(text)
  /\ decoded' = decode(text.s)
  /\ doc' = text.s
  /\ pc' = "decoded"
  /\ UNCHANGED <<value, opts, text, retext, ftype, advice, selected, lexer,
                 bytes, number, serializationStack, frames, schemas, resolved>>

\* retext = encode(decoded, opts)
Reencode ==
  /\ pc = "decoded"
  /\ decoded.err.kind = ""
  /\ retext' = encode(decoded.value, opts)
  /\ pc' = "reencoded"
  /\ UNCHANGED <<value, opts, doc, text, decoded, ftype, advice, selected,
                 lexer, bytes, number, serializationStack, frames, schemas,
                 resolved>>

Next == Encode \/ Decode \/ Reencode

Spec == Init /\ [][Next]_vars

\* C1 as stated: for every value without cycles, every forced mode and both
\* compression settings, encode returns text and decode of that text returns a
\* value equal to the one encoded.
C1_RoundTrip ==
  /\ pc = "encoded" => IsOk(text)
  /\ pc = "decoded" => decoded.err.kind = "" /\ SameValue(decoded.value, value)

\* C2 as stated: encode(decode(encode(v))) is the text of encode(v), character
\* for character, under the same options.
C2_Idempotent ==
  /\ pc = "decoded" => decoded.err.kind = ""
  /\ pc = "reencoded" => IsOk(retext) /\ retext.s = text.s


(***************************************************************************)
(* Decoding hand-written compact arrays.  A document is                    *)
(*   u::[count] id:u8|s:str      (or the one field s:str)                  *)
(*   the directive lines of field s, by kind                               *)
(*   rows data rows, "~" standing for s when it has directive lines        *)
(***************************************************************************)
MaxCount == 3

MaxRows == 4

DirectiveKinds ==
  {"none", "dict-idx", "idx-dict", "idx-only", "idx-range",
   "rle", "rle-count", "rle-short", "rle-long", "delta", "delta-bad"}

Documents ==
  {d \in [count : 0..MaxCount, rows : 0..MaxRows, fields : {1, 2},
          kind : DirectiveKinds] : d.kind = "rle-short" => d.count > 0}

\* i - 1 indices, or deltas, after the first
Repeated(first, more, n) == Join([i \in 1..n |-> IF i = 1 THEN first ELSE more], "")

DirectiveLines(d) ==
  LET idx == "\n@idx:s " \o Repeated("0", ",1", d.count)
      dict == "\n@dict:s [a, b]"
  IN  CASE d.kind = "none" -> ""
        [] d.kind = "dict-idx" -> dict \o idx
        [] d.kind = "idx-dict" -> idx \o dict
        [] d.kind = "idx-only" -> idx
        [] d.kind = "idx-range" -> dict \o "\n@idx:s " \o Repeated("5", ",1", d.count)
        [] d.kind = "rle" -> "\n@rle:s a*" \o NatToString(d.count)
        [] d.kind = "rle-count" -> "\n@rle:s a*x|b*" \o NatToString(d.count)
        [] d.kind = "rle-short" -> "\n@rle:s a*" \o NatToString(d.count - 1)
        [] d.kind = "rle-long" -> "\n@rle:s a*" \o NatToString(d.count + 2)
        [] d.kind = "delta" -> "\n@delta:s " \o Repeated("1", "|+1", d.count)
        [] d.kind = "delta-bad" -> "\n@delta:s " \o Repeated("1", "|+x", d.count + 1)

DocumentText(d) ==
  LET cell == IF d.kind = "none" THEN "a" ELSE "~"
      row(i) == "\n  " \o (IF d.fields = 2 THEN NatToString(i) \o "|" ELSE "") \o cell
  IN  "u::[" \o NatToString(d.count) \o "] "
        \o (IF d.fields = 2 THEN "id:u8|s:str" ELSE "s:str")
        \o DirectiveLines(d)
        \o Join([i \in 1..d.rows |-> row(i)], "")

InitDecode ==
  /\ pc = "document"
  /\ doc \in Documents
  /\ value = Undef
  /\ opts = NoOpts
  /\ text = NotYet
  /\ decoded = NotDecoded
  /\ retext = NotYet
  /\ ftype = ""
  /\ advice = <<>>
  /\ serializationStack = {}
  /\ frames = <<>>
  /\ schemas = <<>>
  /\ resolved = NotResolved
  /\ number = NoNumber
  /\ bytes = NoBytes
  /\ lexer = NewLexer
  /\ selected = ""

\* decoded = decode(document)
DecodeDocument ==
  /\ pc = "document"
  /\ text' = Ok(DocumentText(doc))
  /\ decoded' = decode(DocumentText(doc))
  /\ pc' = "decoded"
  /\ UNCHANGED <<value, opts, doc, retext, ftype, advice, selected, lexer,
                 bytes, number, serializationStack, frames, schemas, resolved>>

NextDecode == DecodeDocument

SpecDecode == InitDecode /\ [][NextDecode]_vars

\* the rows decode returned for the array u
RowsDecoded == Get(decoded.value, "u").v

Accepted == pc = "decoded" /\ decoded.err.kind = ""

\* C4 as stated: a document whose @idx:s line comes before its @dict:s line, or
\* has no @dict:s line at all, raises a parse error and returns no value.
C4_IdxNeedsDict ==
  (pc = "decoded" /\ doc.kind \in {"idx-dict", "idx-only"} /\ doc.count > 0) =>
    decoded.err.kind = "parse"

\* the parser's index after the array, and whether only the end of input follows
AllConsumed ==
  LET T == ParserTokens(tokenize(text.s).tokens)
  IN  isAtEnd(T, skipWhitespace(T, parse(tokenize(text.s).tokens).cur))

\* the number of values the directive lines of a document give field s
ColumnLength(d) ==
  CASE d.kind \in {"dict-idx", "idx-range", "rle", "delta"} -> d.count
    [] d.kind = "rle-short" -> d.count - 1
    [] d.kind = "rle-long" -> d.count + 2
    [] d.kind = "delta-bad" -> d.count + 1
    [] OTHER -> 0

\* C6 as stated: when decode of a compact array succeeds, it returns as many
\* rows as the header declares, every data row of the text was consumed, and,
\* when every field is compressed, the decompressed column has count elements.
C6_DeclaredCount ==
  (Accepted /\ doc.kind \in {"none", "rle", "rle-short", "rle-long"}) =>
    /\ Len(RowsDecoded) = doc.count
    /\ AllConsumed
    /\ (doc.fields = 1 /\ doc.kind # "none") => ColumnLength(doc) = doc.count

\* C8 as stated: an index outside the dictionary, a run count that is no number
\* and a delta that is no number each raise a parse error; no value is returned.
C8_MalformedDirective ==
  (pc = "decoded" /\ doc.kind \in {"idx-range", "rle-count", "delta-bad"}
     /\ doc.count > 0) =>
    decoded.err.kind = "parse"


(***************************************************************************)
(* Encoding values that contain themselves                                 *)
(***************************************************************************)
AllModes == ForcedModes \cup {"auto"}

AllOptions == {Options(m, c) : m \in AllModes, c \in BOOLEAN}

\* Ref(n) is the container n levels above the place where it stands
CyclicValues ==
  { Obj(<<Entry("self", Ref(1))>>),
    Obj(<<Entry("a", Obj(<<Entry("b", Ref(2))>>)), Entry("k", Num(1))>>),
    Arr(<<Ref(1)>>),
    Obj(<<Entry("a", Arr(<<Ref(2)>>)), Entry("k", Num(1))>>),
    Arr(<<Obj(<<Entry("id", Num(1)), Entry("self", Ref(1))>>),
          Obj(<<Entry("id", Num(2)), Entry("self", Null)>>)>>),
    Arr(<<Obj(<<Entry("id", Num(1)), Entry("up", Ref(2))>>)>>),
    Arr([i \in 1..10 |-> Obj(<<Entry("up", Ref(2))>>)]),
    Arr([i \in 1..10 |-> Obj(<<Entry("id", Num(i)), Entry("self", Ref(1))>>)]),
    Obj(<<Entry("rows", Arr(<<Obj(<<Entry("id", Num(1)), Entry("self", Ref(1))>>)>>))>>) }

InitCycle ==
  /\ pc = "start"
  /\ value \in CyclicValues
  /\ opts \in AllOptions
  /\ doc = [kind |-> "cyclic"]
  /\ text = NotYet
  /\ decoded = NotDecoded
  /\ retext = NotYet
  /\ ftype = ""
  /\ advice = <<>>
  /\ serializationStack = {}
  /\ frames = <<>>
  /\ schemas = <<>>
  /\ resolved = NotResolved
  /\ number = NoNumber
  /\ bytes = NoBytes
  /\ lexer = NewLexer
  /\ selected = ""

\* text = encode(value, opts) of a value that contains itself
EncodeCyclic ==
  /\ pc = "start"
  /\ text' = encode(value, opts)
  /\ pc' = "encoded"
  /\ UNCHANGED <<value, opts, doc, decoded, retext, ftype, advice, selected,
                 lexer, bytes, number, serializationStack, frames, schemas,
                 resolved>>

NextCycle == EncodeCyclic

SpecCycle == InitCycle /\ [][NextCycle]_vars

\* C5 as stated: encode of a value that contains itself, in every mode and with
\* compression on or off, raises the codec's own error (circular reference or
\* depth exceeded); it returns no text and raises no other error.
C5_CycleRejected ==
  pc = "encoded" => text.err \in {"circular", "depth"}

(***************************************************************************)
(* Encoding values nested about as deep as the bound                       *)
(***************************************************************************)
\* how far past MAX_DEPTH the nesting of the values goes
MaxOver == 3

\* v wrapped n times; the first half of the wraps is built before the second
RECURSIVE WrapArrays(_, _)
WrapArrays(v, n) ==
  IF n = 0 THEN v
  ELSE IF n = 1 THEN Arr(<<v>>)
  ELSE LET h == WrapArrays(v, n \div 2)
       IN  IF h.t = "arr" THEN WrapArrays(h, n - n \div 2) ELSE h

RECURSIVE WrapObjects(_, _)
WrapObjects(v, n) ==
  IF n = 0 THEN v
  ELSE IF n = 1 THEN Obj(<<Entry("a", v), Entry("b", Num(2))>>)
  ELSE LET h == WrapObjects(v, n \div 2)
       IN  IF h.t = "obj" THEN WrapObjects(h, n - n \div 2) ELSE h

DeepShapes == [kind : {"arrays", "objects", "row", "field"},
               levels : (MAX_DEPTH - 1)..(MAX_DEPTH + MaxOver)]

\* levels containers inside one another; "row" is an array whose one row is
\* the innermost of levels - 1 objects, "field" an object whose field a holds
\* levels - 1 arrays
DeepValue(d) ==
  CASE d.kind = "arrays" -> WrapArrays(Num(1), d.levels)
    [] d.kind = "objects" -> WrapObjects(Num(1), d.levels)
    [] d.kind = "row" -> Arr(<<WrapObjects(Num(1), d.levels - 1)>>)
    [] d.kind = "field" ->
         Obj(<<Entry("a", WrapArrays(Num(1), d.levels - 1)), Entry("b", Num(2))>>)

InitDepth ==
  /\ pc = "start"
  /\ doc \in DeepShapes
  /\ value = DeepValue(doc)
  /\ opts \in AllOptions
  /\ text = NotYet
  /\ decoded = NotDecoded
  /\ retext = NotYet
  /\ ftype = ""
  /\ advice = <<>>
  /\ serializationStack = {}
  /\ frames = <<>>
  /\ schemas = <<>>
  /\ resolved = NotResolved
  /\ number = NoNumber
  /\ bytes = NoBytes
  /\ lexer = NewLexer
  /\ selected = ""

\* text = encode(value, opts) of a deeply nested value
EncodeDeep ==
  /\ pc = "start"
  /\ text' = encode(value, opts)
  /\ pc' = "encoded"
  /\ UNCHANGED <<value, opts, doc, decoded, retext, ftype, advice, selected,
                 lexer, bytes, number, serializationStack, frames, schemas,
                 resolved>>

NextDepth == EncodeDeep

SpecDepth == InitDepth /\ [][NextDepth]_vars

\* C7 as stated, for encode: a value whose innermost container lies more than
\* MAX_DEPTH levels below the outermost one is rejected with the depth error,
\* whatever the containers on the way are and whatever the mode is.
C7_DepthBound ==
  (pc = "encoded" /\ doc.levels - 1 > MAX_DEPTH) => text.err = "depth"


(***************************************************************************)
(* Compressing a column of runs                                            *)
(***************************************************************************)
\* the lengths a run may take, and the values that may repeat
RunLengths == {1, 4, 5}

RunValues == {"active", "pending", "on hold"}

Run(v, n) == [value |-> v, length |-> n]

\* one, two or three runs, neighbours holding different values, and the column
\* of the serializer's example: 800 active, 150 inactive, 50 pending
RunLists ==
  { <<Run(v, n)>> : v \in RunValues, n \in RunLengths }
  \cup { <<Run(p[1], n), Run(p[2], m)>> :
           p \in {q \in RunValues \X RunValues : q[1] # q[2]},
           n \in RunLengths, m \in RunLengths }
  \cup { <<Run("active", n), Run(w, m), Run("active", k)>> :
           w \in RunValues \ {"active"}, n \in RunLengths, m \in RunLengths,
           k \in RunLengths }
  \cup { <<Run("active", 800), Run("inactive", 150), Run("pending", 50)>> }

RowCount(runs) == Sum([r \in 1..Len(runs) |-> runs[r].length])

\* the value of row i of the column made of the runs
RECURSIVE RunValueAt(_, _, _)
RunValueAt(runs, r, i) ==
  IF i <= runs[r].length THEN runs[r].value
  ELSE RunValueAt(runs, r + 1, i - runs[r].length)

RunColumn(runs) == [i \in 1..RowCount(runs) |-> Str(RunValueAt(runs, 1, i))]

\* rows {status, id}
RunRows(runs) ==
  LET col == RunColumn(runs)
  IN  Arr([i \in 1..Len(col) |-> Obj(<<Entry("status", col[i]), Entry("id", Num(i))>>)])

InitCompress ==
  /\ pc = "start"
  /\ doc \in [runs : RunLists]
  /\ value = RunRows(doc.runs)
  /\ opts \in {Options(m, c) : m \in {"auto", "compact"}, c \in BOOLEAN}
  /\ text = NotYet
  /\ decoded = NotDecoded
  /\ retext = NotYet
  /\ ftype = ""
  /\ advice = <<>>
  /\ serializationStack = {}
  /\ frames = <<>>
  /\ schemas = <<>>
  /\ resolved = NotResolved
  /\ number = NoNumber
  /\ bytes = NoBytes
  /\ lexer = NewLexer
  /\ selected = ""

\* advice = analyzeCompression(value)
Analyze ==
  /\ pc = "start"
  /\ advice' = analyzeCompression(Children(value, Root))
  /\ pc' = "analyzed"
  /\ UNCHANGED <<value, opts, doc, text, decoded, retext, ftype, selected,
                 lexer, bytes, number, serializationStack, frames, schemas,
                 resolved>>

\* text = encode(value, opts)
EncodeRows ==
  /\ pc = "analyzed"
  /\ text' = encode(value, opts)
  /\ pc' = "encoded"
  /\ UNCHANGED <<value, opts, doc, decoded, retext, ftype, advice, selected,
                 lexer, bytes, number, serializationStack, frames, schemas,
                 resolved>>

\* decoded = decode(text)
DecodeRows ==
  /\ pc = "encoded"
  /\ IsOk(text)
  /\ decoded' = decode(text.s)
  /\ pc' = "decoded"
  /\ UNCHANGED <<value, opts, doc, text, retext, ftype, advice, selected, lexer,
                 bytes, number, serializationStack, frames, schemas, resolved>>

NextCompress == Analyze \/ EncodeRows \/ DecodeRows

SpecCompress == InitCompress /\ [][NextCompress]_vars

\* C9 as stated: for rows fewer than the threshold of 10 the analyzer recommends
\* nothing for any field, and encode writes no @algorithm tag and no directive
\* line (no '@' at all, the values holding none).
C9_BelowThreshold ==
  (pc # "start" /\ RowCount(doc.runs) < CompressionMinRows) =>
     /\ advice = <<>>
     /\ pc \in {"encoded", "decoded"} => IsOk(text) /\ ~HasChar(text.s, {"@"})

\* the half of C9 that is about encode alone
EncodeBelowThreshold ==
  (pc \in {"encoded", "decoded"} /\ RowCount(doc.runs) < CompressionMinRows) =>
     IsOk(text) /\ ~HasChar(text.s, {"@"})

DirectiveLine ==
  LET lines == split(text.s, "\n")
  IN  IF Len(lines) >= 2 THEN lines[2] ELSE ""

RunLengthCompressed ==
  /\ pc \in {"encoded", "decoded"}
  /\ IsOk(text)
  /\ Len(DirectiveLine) >= 12
  /\ SubSeq(DirectiveLine, 1, 12) = "@rle:status "

\* the text of a run; a run of one row may also stand as the bare value
RunTexts(r) ==
  {r.value \o "*" \o NatToString(r.length)}
  \cup (IF r.length = 1 THEN {r.value} ELSE {})

RECURSIVE RunListTexts(_, _)
RunListTexts(runs, r) ==
  IF r = Len(runs) THEN RunTexts(runs[r])
  ELSE {a \o "|" \o b : a \in RunTexts(runs[r]), b \in RunListTexts(runs, r + 1)}

StatusColumn(x) == [i \in 1..Len(x.v) |-> Get(x.v[i], "status")]

\* C10 as stated: when the status field is run-length compressed, its directive
\* lists the maximal runs in order as value*length joined by '|' (the lengths
\* then sum to the row count), and decoding the document gives back the column,
\* value for value and in order.
C10_RunLength ==
  RunLengthCompressed =>
    /\ DirectiveLine \in {"@rle:status " \o t : t \in RunListTexts(doc.runs, 1)}
    /\ pc = "decoded" =>
         /\ decoded.err.kind = ""
         /\ decoded.value.t = "arr"
         /\ Len(decoded.value.v) = RowCount(doc.runs)
         /\ \A i \in 1..RowCount(doc.runs) :
              /\ decoded.value.v[i].t = "obj"
              /\ SameValue(StatusColumn(decoded.value)[i], RunColumn(doc.runs)[i])

(***************************************************************************)
(* Compact arrays: header, rows and the key order of the rows              *)
(***************************************************************************)
MaxRecords == 3

\* the orders in which a record holds its keys
KeyOrders ==
  { <<"id">>, <<"id", "name">>, <<"name", "id">>,
    <<"id", "name", "role">>, <<"role", "id", "name">>,
    <<"id", "first name">>, <<"first name", "id">> }

SameKeySet(a, b) ==
  /\ Len(a) = Len(b)
  /\ {a[k] : k \in 1..Len(a)} = {b[k] : k \in 1..Len(b)}

\* the first record's order and the order of the records after it
OrderPairs == {p \in KeyOrders \X KeyOrders : SameKeySet(p[1], p[2])}

CellOf(key, i) ==
  CASE key = "id" -> Num(i)
    [] key = "name" -> Str(IF i = 2 THEN "Bob Lee" ELSE "Alice")
    [] key = "role" -> Str(IF i = 1 THEN "admin" ELSE "user")
    [] OTHER -> Str("Al")

Record(order, i) ==
  Obj([k \in 1..Len(order) |-> Entry(order[k], CellOf(order[k], i))])

Records(n, first, rest) ==
  Arr([i \in 1..n |-> Record(IF i = 1 THEN first ELSE rest, i)])

RecordArrays == {Records(n, p[1], p[2]) : n \in 1..MaxRecords, p \in OrderPairs}

\* the array itself, or the array as the only field of an object
CompactValues == RecordArrays \cup {Obj(<<Entry("users", a)>>) : a \in RecordArrays}

InitCompact ==
  /\ pc = "start"
  /\ value \in CompactValues
  /\ opts \in {Options(m, FALSE) : m \in {"auto", "compact", "nested"}}
  /\ doc = ""
  /\ text = NotYet
  /\ decoded = NotDecoded
  /\ retext = NotYet
  /\ ftype = ""
  /\ advice = <<>>
  /\ serializationStack = {}
  /\ frames = <<>>
  /\ schemas = <<>>
  /\ resolved = NotResolved
  /\ number = NoNumber
  /\ bytes = NoBytes
  /\ lexer = NewLexer
  /\ selected = ""

NextCompact == Encode \/ Decode \/ Reencode

SpecCompact == InitCompact /\ [][NextCompact]_vars

\* the array encoded and the name it is written under
RecordsOf(x) == IF x.t = "arr" THEN x ELSE x.v[1].v

NameOf(x) == IF x.t = "arr" THEN "" ELSE x.v[1].k

\* name::[count] field:type|field:type, the fields in the order of the first row
HeaderLine(name, rows) ==
  name \o "::[" \o NatToString(Len(rows.v)) \o "] "
    \o Join([k \in 1..Len(rows.v[1].v) |->
               rows.v[1].v[k].k \o ":"
                 \o inferTypeForField(Children(rows, Root), rows.v[1].v[k].k)], "|")

\* the values of row i in the order of the header
RowLine(rows, i, o) ==
  "  " \o Join([k \in 1..Len(rows.v[1].v) |->
                  formatValue(Get(rows.v[i], rows.v[1].v[k].k), Root, 0, o)[1].s], "|")

HeaderAndRows(lines, rows, name, o) ==
  /\ Len(lines) = Len(rows.v) + 1
  /\ lines[1] = HeaderLine(name, rows)
  /\ \A i \in 1..Len(rows.v) : lines[i + 1] = RowLine(rows, i, o)

\* every decoded row has the keys of the row it was encoded from, in that order
SameKeyOrder(rows, back) ==
  /\ back.t = "arr"
  /\ Len(back.v) = Len(rows.v)
  /\ \A i \in 1..Len(rows.v) : back.v[i].t = "obj" /\ Keys(back.v[i]) = Keys(rows.v[i])

DecodedRecords(x, back) ==
  IF x.t = "arr" THEN back
  ELSE IF back.t = "obj" /\ Len(back.v) = 1 THEN back.v[1].v
  ELSE back

\* C11 as stated: a uniform array of objects encoded without compression is
\* written as the header name::[count] with the field:type entries in the
\* field order of the rows, then one row per element with the values in that
\* order; decoding the text rebuilds every row with the same keys in the same
\* order as in the value encoded.
C11_KeyOrder ==
  /\ pc = "encoded" =>
       /\ IsOk(text)
       /\ HeaderAndRows(split(text.s, "\n"), RecordsOf(value), NameOf(value), opts)
  /\ pc = "decoded" =>
       /\ decoded.err.kind = ""
       /\ SameKeyOrder(RecordsOf(value), DecodedRecords(value, decoded.value))

\* the writing half of C11 alone
C11_Written ==
  pc = "encoded" =>
    /\ IsOk(text)
    /\ HeaderAndRows(split(text.s, "\n"), RecordsOf(value), NameOf(value), opts)

\* rows that hold their keys in one order, every key an identifier
PlainRecords(rows) ==
  \A i \in 1..Len(rows.v) :
    /\ Keys(rows.v[i]) = Keys(rows.v[1])
    /\ \A k \in 1..Len(rows.v[i].v) : ~HasChar(rows.v[i].v[k].k, {" "})

\* the reading half of C11 for such rows
C11_PlainRead ==
  (pc = "decoded" /\ PlainRecords(RecordsOf(value))) =>
    /\ decoded.err.kind = ""
    /\ SameKeyOrder(RecordsOf(value), DecodedRecords(value, decoded.value))

(***************************************************************************)
(* Mode selection over tables of every size around the thresholds          *)
(***************************************************************************)
MaxFields == 3

\* row counts below, at and above the thresholds of the sparse, stream and
\* columnar tests
TableSizes == {1, 19, 20, 49, 50, 99, 100, 200}

\* a field holds a time stamp, a number, a string or null in every row
FieldKinds == {"timestamp", "num", "str", "null"}

KindLists == UNION {[1..n -> FieldKinds] : n \in 1..MaxFields}

\* the key of field j: a time stamp is named for what it is
KeyOfKind(kinds, j) ==
  IF kinds[j] = "timestamp" THEN "timestamp" \o NatToString(j)
  ELSE "f" \o NatToString(j)

CellOfKind(kind, i) ==
  CASE kind = "timestamp" -> Num(1700000000 + i)
    [] kind = "num" -> Num(i)
    [] kind = "str" -> Str("x")
    [] OTHER -> Null

TableRow(kinds, i) ==
  Obj([j \in 1..Len(kinds) |-> Entry(KeyOfKind(kinds, j), CellOfKind(kinds[j], i))])

TableOf(n, kinds) == Arr([i \in 1..n |-> TableRow(kinds, i)])

Shapes == {[rows |-> n, kinds |-> kinds] : n \in TableSizes, kinds \in KindLists}

InitSelect ==
  /\ pc = "start"
  /\ \/ /\ doc \in Shapes
        /\ value = TableOf(doc.rows, doc.kinds)
     \/ /\ doc = [rows |-> 0, kinds |-> <<>>]
        /\ value \in RoundTripValues
  /\ opts \in {Options(m, FALSE) : m \in AllModes}
  /\ text = NotYet
  /\ decoded = NotDecoded
  /\ retext = NotYet
  /\ ftype = ""
  /\ advice = <<>>
  /\ serializationStack = {}
  /\ frames = <<>>
  /\ schemas = <<>>
  /\ resolved = NotResolved
  /\ number = NoNumber
  /\ bytes = NoBytes
  /\ lexer = NewLexer
  /\ selected = ""

\* selected = selectMode(value, {mode})
SelectMode ==
  /\ pc = "start"
  /\ selected' = selectMode(value, Root, opts.mode)
  /\ pc' = "selected"
  /\ UNCHANGED <<value, opts, doc, text, decoded, retext, ftype, advice, lexer,
                 bytes, number, serializationStack, frames, schemas, resolved>>

NextSelect == SelectMode

SpecSelect == InitSelect /\ [][NextSelect]_vars

CountKinds(kinds, S) == Cardinality({j \in 1..Len(kinds) : kinds[j] \in S})

\* the three conditions, read off the shape of the table
SparseShape(shape) ==
  shape.rows >= 20 /\ 2 * CountKinds(shape.kinds, {"null"}) > Len(shape.kinds)

StreamShape(shape) ==
  shape.rows >= 50 /\ CountKinds(shape.kinds, {"timestamp"}) > 0

ColumnarShape(shape) ==
  /\ shape.rows >= 100
  /\ 2 * CountKinds(shape.kinds, {"timestamp", "num"}) > Len(shape.kinds)

\* C12: in auto mode a uniform array of objects selects sparse if it meets the
\* sparse condition, else stream if it meets the stream condition, else
\* columnar if it meets the columnar condition, else compact; so sparse wins
\* over stream and stream wins over columnar.
C12_Priority ==
  (pc = "selected" /\ opts.mode = "auto" /\ doc.rows > 0) =>
    selected = IF SparseShape(doc) THEN "sparse"
               ELSE IF StreamShape(doc) THEN "stream"
               ELSE IF ColumnarShape(doc) THEN "columnar"
               ELSE "compact"

\* 200 rows of a time stamp and two numeric fields: stream and columnar both
\* apply, and stream is selected
C12_Witness ==
  /\ pc = "selected"
  /\ opts.mode = "auto"
  /\ doc = [rows |-> 200, kinds |-> <<"timestamp", "num", "num">>]
  /\ StreamShape(doc) /\ ColumnarShape(doc)
  /\ selected = "stream"

\* a time series that is also sparse
C12_SparseOverStream ==
  /\ pc = "selected"
  /\ opts.mode = "auto"
  /\ SparseShape(doc) /\ StreamShape(doc)
  /\ selected = "sparse"

\* C13: for every value and every requested mode other than auto, selectMode
\* returns the requested mode, whatever the shape of the value.
C13_Explicit ==
  (pc = "selected" /\ opts.mode # "auto") => selected = opts.mode

\* columnar requested for a value that is no array, sparse for a table that
\* meets the stream condition alone
C13_Witness ==
  /\ pc = "selected"
  /\ \/ value = Str("x") /\ opts.mode = "columnar"
     \/ doc.rows = 50 /\ doc.kinds = <<"timestamp">> /\ opts.mode = "sparse"
  /\ selected = opts.mode
  /\ selected # selectModeByShape(value, Root, opts.mode)

(***************************************************************************)
(* Encoding with compression off                                           *)
(***************************************************************************)
\* tables the analyzer has recommendations for, and strings that are written
\* as they are
PlainValues ==
  RoundTripValues
    \cup {TableOf(n, kinds) : n \in {10, 20}, kinds \in {<<"num", "str">>, <<"timestamp">>}}
    \cup { Arr(<<Obj(<<Entry("a", Str("~")), Entry("n", Num(1))>>)>>),
           Arr(<<Obj(<<Entry("a", Str("a~b")), Entry("n", Num(1))>>)>>),
           Str("@rle:status"),
           Obj(<<Entry("mail", Str("x@delta.org"))>>) }

InitPlain ==
  /\ pc = "start"
  /\ value \in PlainValues
  /\ opts \in {Options(m, FALSE) : m \in AllModes}
  /\ doc = ""
  /\ text = NotYet
  /\ decoded = NotDecoded
  /\ retext = NotYet
  /\ ftype = ""
  /\ advice = <<>>
  /\ serializationStack = {}
  /\ frames = <<>>
  /\ schemas = <<>>
  /\ resolved = NotResolved
  /\ number = NoNumber
  /\ bytes = NoBytes
  /\ lexer = NewLexer
  /\ selected = ""

NextPlain == Encode \/ Decode \/ Reencode

SpecPlain == InitPlain /\ [][NextPlain]_vars

StartsWith(s, prefix) ==
  Len(s) >= Len(prefix) /\ SubSeq(s, 1, Len(prefix)) = prefix

EndsWith(s, suffix) ==
  Len(s) >= Len(suffix) /\ SubSeq(s, Len(s) - Len(suffix) + 1, Len(s)) = suffix

\* a line @rle:field ..., @dict:field ..., @idx:field ... or @delta:field ...:
\* the directive, the field and after a space what the directive holds
IsDirectiveLine(line) ==
  /\ \E d \in {"@rle:", "@dict:", "@idx:", "@delta:"} : StartsWith(line, d)
  /\ HasChar(line, {" "})

\* field:type@algorithm among the field definitions of an array header
TaggedIn(parts) ==
  \E c \in 1..Len(parts) :
    \E a \in {"@rle", "@dictionary", "@delta", "@bitpack"} : EndsWith(trim(parts[c]), a)

HasAlgorithmTag(line, delimiter) ==
  Includes(line, "::[") /\ TaggedIn(split(line, delimiter))

\* a row with a cell that is the placeholder ~ and nothing else
PlaceholderIn(parts) == \E c \in 1..Len(parts) : trim(parts[c]) = "~"

HasPlaceholder(line, delimiter) ==
  StartsWith(line, "  ") /\ PlaceholderIn(split(line, delimiter))

NoCompressionIn(lines, delimiter) ==
  \A n \in 1..Len(lines) :
    /\ ~IsDirectiveLine(lines[n])
    /\ ~HasAlgorithmTag(lines[n], delimiter)
    /\ ~HasPlaceholder(lines[n], delimiter)

\* C14 as stated: with the compression option false, for every value and every
\* mode the text encode returns holds no @rle, @dict, @idx or @delta directive
\* line, no @algorithm tag in a header field and no ~ placeholder.
C14_CompressionOff ==
  (pc = "encoded" /\ IsOk(text)) => NoCompressionIn(split(text.s, "\n"), opts.delimiter)

RECURSIVE StringsIn(_)
\* the strings a value holds, keys included
StringsIn(x) ==
  CASE x.t = "str" -> {x.v}
    [] x.t = "arr" -> UNION {StringsIn(x.v[k]) : k \in 1..Len(x.v)}
    [] x.t = "obj" -> UNION {StringsIn(x.v[k].v) \cup {x.v[k].k} : k \in 1..Len(x.v)}
    [] OTHER -> {}

\* C14 for values none of whose strings holds ~ or @: what the serializer
\* writes of its own accord
C14_OwnText ==
  (pc = "encoded" /\ IsOk(text) /\ \A s \in StringsIn(value) : ~HasChar(s, {"~", "@"}))
    => NoCompressionIn(split(text.s, "\n"), opts.delimiter)

\* the same ten rows with the option on do hold a directive line
C14_OnHasDirective ==
  LET on == encode(TableOf(10, <<"num", "str">>), Options("compact", TRUE))
  IN  IsOk(on) /\ ~NoCompressionIn(split(on.s, "\n"), "|")

(***************************************************************************)
(* The analyzer's recommendation for columns of several kinds              *)
(***************************************************************************)
MaxColumns == 2

AdviceSizes == {9, 10, 11, 12, 20}

\* runs: two runs of strings; cycle: two strings in turn; serial: rising
\* numbers; small: two small numbers in turn; unique: a string per row;
\* same: one number in every row
ColumnKinds == {"runs", "cycle", "serial", "small", "unique", "same"}

ColumnKindLists == UNION {[1..n -> ColumnKinds] : n \in 1..MaxColumns}

CellOfColumn(kind, i, n) ==
  CASE kind = "runs" -> Str(IF 2 * i <= n THEN "active" ELSE "pending")
    [] kind = "cycle" -> Str(IF i % 2 = 1 THEN "active" ELSE "pending")
    [] kind = "serial" -> Num(1000 + i)
    [] kind = "small" -> Num(IF i % 2 = 1 THEN 5 ELSE 3)
    [] kind = "unique" -> Str("u" \o NatToString(i))
    [] OTHER -> Num(7)

AdviceRow(kinds, i, n) ==
  Obj([j \in 1..Len(kinds) |->
         Entry("f" \o NatToString(j), CellOfColumn(kinds[j], i, n))])

AdviceRows(n, kinds) == Arr([i \in 1..n |-> AdviceRow(kinds, i, n)])

InitAdvise ==
  /\ pc = "start"
  /\ doc \in {[rows |-> n, kinds |-> kinds] : n \in AdviceSizes, kinds \in ColumnKindLists}
  /\ value = AdviceRows(doc.rows, doc.kinds)
  /\ opts = Options("compact", TRUE)
  /\ text = NotYet
  /\ decoded = NotDecoded
  /\ retext = NotYet
  /\ ftype = ""
  /\ advice = <<>>
  /\ serializationStack = {}
  /\ frames = <<>>
  /\ schemas = <<>>
  /\ resolved = NotResolved
  /\ number = NoNumber
  /\ bytes = NoBytes
  /\ lexer = NewLexer
  /\ selected = ""

NextAdvise == Analyze

SpecAdvise == InitAdvise /\ [][NextAdvise]_vars

\* the algorithms values qualify for
Qualifying(values) ==
  {a \in {"rle"} : RLERatioQualifies(values)}
    \cup {a \in {"dictionary"} : shouldUseDictionary(values) /\ DictionaryRatioQualifies(values)}
    \cup {a \in {"delta"} : shouldUseDelta(values) /\ DeltaRatioQualifies(values)}
    \cup {a \in {"bitpack"} : shouldUseBitPacking(values) /\ BitPackingRatioQualifies(values)}

AlgorithmOrder == <<"rle", "dictionary", "delta", "bitpack">>

\* the first of the order among those that qualify, none when none does
FirstOf(qualifying) ==
  IF qualifying = {} THEN "none"
  ELSE AlgorithmOrder[Least({k \in 1..4 : AlgorithmOrder[k] \in qualifying})]

\* the records the analyzer returned for a field
RecordsFor(recs, field) == {r \in 1..Len(recs) : recs[r].field = field}

\* C15: analyzeCompression returns at most one recommendation per field; a
\* field for which no algorithm qualifies has no record, every other field has
\* exactly one, and it names the first algorithm that qualifies in the order
\* run-length, dictionary, delta, bit-pack.
C15_FirstQualifying ==
  pc = "analyzed" =>
    \A j \in 1..Len(doc.kinds) :
      LET field == "f" \o NatToString(j)
          first == FirstOf(Qualifying(ColumnValues(Children(value, Root), field)))
      IN  IF first = "none" THEN RecordsFor(advice, field) = {}
          ELSE /\ Cardinality(RecordsFor(advice, field)) = 1
               /\ \A r \in RecordsFor(advice, field) : advice[r].algorithm = first

\* C15 as stated: exactly one recommendation per field, with the algorithm
\* none when no algorithm qualifies.
C15_ExactlyOne ==
  pc = "analyzed" =>
    \A j \in 1..Len(doc.kinds) :
      LET field == "f" \o NatToString(j)
      IN  /\ Cardinality(RecordsFor(advice, field)) = 1
          /\ \A r \in RecordsFor(advice, field) :
               advice[r].algorithm
                 = FirstOf(Qualifying(ColumnValues(Children(value, Root), field)))

\* a column that qualifies for run-length and for dictionary gets run-length
C15_Witness ==
  /\ pc = "analyzed"
  /\ doc.kinds[1] = "runs"
  /\ {"rle", "dictionary"} \subseteq Qualifying(ColumnValues(Children(value, Root), "f1"))
  /\ Len(advice) >= 1
  /\ advice[1] = [field |-> "f1", algorithm |-> "rle"]

\* what the analyzer returned for the only column
OnlyAdvice ==
  IF Len(doc.kinds) # 1 THEN "" ELSE IF Len(advice) = 0 THEN "none" ELSE advice[1].algorithm

\* every algorithm, and none, is the answer for some column
C15_SeesDictionary == pc = "analyzed" /\ OnlyAdvice = "dictionary"

C15_SeesDelta == pc = "analyzed" /\ OnlyAdvice = "delta"

C15_SeesBitpack == pc = "analyzed" /\ OnlyAdvice = "bitpack"

C15_SeesNone == pc = "analyzed" /\ OnlyAdvice = "none"

(***************************************************************************)
(* Tokenizing texts made of a few pieces                                   *)
(***************************************************************************)
MaxPieces == 3

\* white space, words, numbers, strings, comments, punctuation, a string
\* without its end and a character the lexer does not know
Pieces ==
  { " ", "\n", "\t", "\r", "ab", "12", "\"a b\"", "\"x\\ny\"",
    "/* c\n d */", "// c", ":", "::", "|", "\"u", "$" }

PieceLists == UNION {[1..n -> Pieces] : n \in 0..MaxPieces}

InitLex ==
  /\ pc = "start"
  /\ doc \in {Join(pieces, "") : pieces \in PieceLists}
  /\ value = Undef
  /\ opts = NoOpts
  /\ text = NotYet
  /\ decoded = NotDecoded
  /\ retext = NotYet
  /\ ftype = ""
  /\ advice = <<>>
  /\ serializationStack = {}
  /\ frames = <<>>
  /\ schemas = <<>>
  /\ resolved = NotResolved
  /\ number = NoNumber
  /\ bytes = NoBytes
  /\ selected = ""
  /\ lexer = NewLexer

\* lexer = new Lexer(doc) after tokenize()
Tokenize ==
  /\ pc = "start"
  /\ lexer' = tokenize(doc)
  /\ pc' = "tokenized"
  /\ UNCHANGED <<value, opts, doc, text, decoded, retext, ftype, advice,
                 selected, bytes, number, serializationStack, frames, schemas,
                 resolved>>

NextLex == Tokenize

SpecLex == InitLex /\ [][NextLex]_vars

\* tokenize returned: it did not throw
Returned == pc = "tokenized" /\ lexer.err.kind = ""

EndsOf(tokens) == {k \in 1..Len(tokens) : tokens[k].type = "EOF"}

OnlyWhitespace(input) == \A i \in 1..Len(input) : Ch(input, i) \in {" ", "\t", "\r", "\n"}

\* C16: when tokenize returns, the token list ends with an EOF token and holds
\* no other EOF; for the empty input the list is the EOF token alone; on input
\* of spaces, tabs, carriage returns and newlines tokenize does not throw.
C16_OneEnd ==
  /\ Returned => EndsOf(lexer.tokens) = {Len(lexer.tokens)} /\ Len(lexer.tokens) >= 1
  /\ (pc = "tokenized" /\ doc = "") => lexer.err.kind = "" /\ Len(lexer.tokens) = 1
  /\ (pc = "tokenized" /\ OnlyWhitespace(doc)) => lexer.err.kind = ""

\* white space over three lines gives two NEWLINE tokens and the EOF
C16_Witness ==
  /\ Returned
  /\ doc = "\n\t\n"
  /\ [k \in 1..Len(lexer.tokens) |-> lexer.tokens[k].type] = <<"NEWLINE", "NEWLINE", "EOF">>

\* tokenize throws on some text
C16_Throws == pc = "tokenized" /\ lexer.err.kind # ""

\* the index of the first character of a line: after the newline before it
LineStart(input, line) ==
  IF line = 1 THEN 1
  ELSE LET breaks == {i \in 1..Len(input) : Ch(input, i) = "\n"}
       IN  IF Cardinality(breaks) < line - 1 THEN 0
           ELSE Nth(breaks, line - 1) + 1

\* the text a token starts with: a string starts at its quote
FirstText(token) == IF token.type = "STRING" THEN "\"" ELSE token.value

\* the token's line and column are those of its first character
StartsAt(input, token, start) ==
  /\ start >= 1
  /\ start + Len(FirstText(token)) - 1 <= Len(input)
  /\ SubSeq(input, start, start + Len(FirstText(token)) - 1) = FirstText(token)
  /\ token.type = "EOF" => start = Len(input) + 1

WellPlaced(input, token) ==
  /\ token.line >= 1
  /\ token.column >= 1
  /\ StartsAt(input, token, LineStart(input, token.line) + token.column - 1)

\* C17 as stated: every token tokenize produces has a line of 1 or more and a
\* column of 1 or more, and the column is the column, counted from 1, of the
\* token's first character.
C17_Positions ==
  Returned => \A k \in 1..Len(lexer.tokens) : WellPlaced(doc, lexer.tokens[k])

\* the same for the tokens that are no NEWLINE, STRING or COMMENT
C17_OtherTokens ==
  Returned =>
    \A k \in 1..Len(lexer.tokens) :
      lexer.tokens[k].type \notin {"NEWLINE", "STRING", "COMMENT"}
        => WellPlaced(doc, lexer.tokens[k])

(***************************************************************************)
(* Variable-length integers written and read back                          *)
(***************************************************************************)
\* magnitudes around the lengths of one to five bytes, around 2^31 and
\* around 2^32
HighParts == {0, 1, 31, 32, 4095, 4096, 32767, 32768, 65535, 65536, 65537}

LowParts == {0, 1, 127, 128, 16383, 16384, 65535}

VarintInputs ==
  {Integer(FALSE, hi, lo) : hi \in HighParts, lo \in LowParts}
    \cup {Integer(TRUE, 0, lo) : lo \in LowParts \ {0}}

InitVarint ==
  /\ pc = "start"
  /\ doc \in VarintInputs
  /\ value = Undef
  /\ opts = NoOpts
  /\ text = NotYet
  /\ decoded = NotDecoded
  /\ retext = NotYet
  /\ ftype = ""
  /\ advice = <<>>
  /\ serializationStack = {}
  /\ frames = <<>>
  /\ schemas = <<>>
  /\ resolved = NotResolved
  /\ selected = ""
  /\ lexer = NewLexer
  /\ bytes = NoBytes
  /\ number = NoNumber

\* bytes = encodeVarint(doc)
EncodeVarint ==
  /\ pc = "start"
  /\ bytes' = encodeVarint(doc)
  /\ pc' = "encoded"
  /\ UNCHANGED <<value, opts, doc, text, decoded, retext, ftype, advice,
                 selected, lexer, number, serializationStack, frames, schemas,
                 resolved>>

\* number = decodeVarint(bytes)
DecodeVarint ==
  /\ pc = "encoded"
  /\ bytes.err = ""
  /\ number' = decodeVarint(bytes.bytes)
  /\ pc' = "decoded"
  /\ UNCHANGED <<value, opts, doc, text, decoded, retext, ftype, advice,
                 selected, lexer, bytes, serializationStack, frames, schemas,
                 resolved>>

NextVarint == EncodeVarint \/ DecodeVarint

SpecVarint == InitVarint /\ [][NextVarint]_vars

\* the signed 32-bit integer m is the integer n
SameInteger(m, n) == m >= 0 /\ ~n.neg /\ n.hi = m \div 65536 /\ n.lo = m % 65536

\* C18 as stated: for every non-negative integer n that encodeVarint accepts,
\* those of four and five bytes included, decodeVarint(encodeVarint(n)) is n
\* and getVarintLength(n) is the number of bytes encodeVarint produced.
C18_RoundTrip ==
  /\ (pc \in {"encoded", "decoded"} /\ bytes.err = "")
       => Len(bytes.bytes) = getVarintLength(doc)
  /\ pc = "decoded" => number.err = "" /\ SameInteger(number.value, doc)

\* the same for n below 2^31
C18_Below31Bits ==
  (pc \in {"encoded", "decoded"} /\ bytes.err = "" /\ doc.hi < 32768) =>
    /\ Len(bytes.bytes) = getVarintLength(doc)
    /\ pc = "decoded" => number.err = "" /\ SameInteger(number.value, doc)

\* every non-negative integer is accepted, every negative one is rejected
C18_Accepted == pc \in {"encoded", "decoded"} => (bytes.err = "" <=> ~doc.neg)

(***************************************************************************)
(* Strings written by formatValue and read back                            *)
(***************************************************************************)
\* strings that must be quoted, by the rule of needsQuoting
MustQuote ==
  { "", "a b", "a\tb", "a\nb", "a\rb", "a|b", "|", "\"", "a\"b", "\\", "a\\b",
    "a,b", "true", "false", "null", "5", "-3", "1.5", "1e5", "1E+5", "-2.5e-3" }

\* strings the rule does not name
Unnamed ==
  { "x", "ab", "a.b", "a-b", "a_b", "True", "NaN", "user@mail", "+5", "1a",
    "0x10", ".5", "5.", "-", "~", "a~b", "a:b", ":", "#x", "//x", "a/b", "$",
    "[", "]", "{", "a*2", "@" }

QuoteStrings == MustQuote \cup Unnamed

\* the string alone, and the string as a cell of a row
QuoteValues ==
  {Str(s) : s \in QuoteStrings}
    \cup {Arr(<<Obj(<<Entry("a", Str(s)), Entry("n", Num(1))>>)>>) : s \in QuoteStrings}

InitQuote ==
  /\ pc = "start"
  /\ value \in QuoteValues
  /\ opts = Options("compact", FALSE)
  /\ doc = ""
  /\ text = NotYet
  /\ decoded = NotDecoded
  /\ retext = NotYet
  /\ ftype = ""
  /\ advice = <<>>
  /\ serializationStack = {}
  /\ frames = <<>>
  /\ schemas = <<>>
  /\ resolved = NotResolved
  /\ selected = ""
  /\ lexer = NewLexer
  /\ bytes = NoBytes
  /\ number = NoNumber

NextQuote == Encode \/ Decode \/ Reencode

SpecQuote == InitQuote /\ [][NextQuote]_vars

\* the string encoded
StringOf(x) == IF x.t = "str" THEN x.v ELSE x.v[1].v[1].v.v

\* what formatValue wrote for it: the text, or the first cell of the row
WrittenFor(x, s) == IF x.t = "str" THEN s ELSE split(split(s, "\n")[2], "|")[1]

IsQuoted(s) == StartsWith(trim(s), "\"")

\* C19 as stated: formatValue quotes a string that is empty, holds the
\* delimiter, white space, a quote or a backslash, or reads as a boolean, null
\* or a number; and every string it writes without quotes is read back by the
\* tokenizer and the parser as one value, the same string.
C19_QuotingSuffices ==
  /\ (pc = "encoded" /\ StringOf(value) \in MustQuote)
       => IsOk(text) /\ IsQuoted(WrittenFor(value, text.s))
  /\ (pc = "decoded" /\ ~IsQuoted(WrittenFor(value, text.s)))
       => decoded.err.kind = "" /\ SameValue(decoded.value, value)

\* the first half of C19 alone
C19_NamedAreQuoted ==
  (pc = "encoded" /\ StringOf(value) \in MustQuote)
    => IsOk(text) /\ IsQuoted(WrittenFor(value, text.s))

\* the strings of a letter and then letters, '.', '-', '_', '/' or '@' do come back
C19_WordsComeBack ==
  (pc = "decoded"
     /\ StringOf(value) \in {"x", "ab", "a.b", "a-b", "a_b", "a/b", "user@mail", "True", "NaN"})
    => /\ ~IsQuoted(WrittenFor(value, text.s))
       /\ decoded.err.kind = ""
       /\ SameValue(decoded.value, value)

(***************************************************************************)
(* Strings written in quotes and tokenized                                 *)
(***************************************************************************)
MaxChars == 3

\* the characters escapeString replaces, the letters its escapes are written
\* with, and characters that ask for quotes
EscapeChars == {"\\", "\"", "\n", "\t", "\r", "n", "u", "a", " ", "|", ","}

EscapeStrings ==
  {Join(chars, "") : chars \in UNION {[1..n -> EscapeChars] : n \in 0..MaxChars}}

InitEscape ==
  /\ pc = "start"
  /\ value \in {Str(s) : s \in EscapeStrings}
  /\ opts = Options("compact", FALSE)
  /\ doc = ""
  /\ text = NotYet
  /\ decoded = NotDecoded
  /\ retext = NotYet
  /\ ftype = ""
  /\ advice = <<>>
  /\ serializationStack = {}
  /\ frames = <<>>
  /\ schemas = <<>>
  /\ resolved = NotResolved
  /\ selected = ""
  /\ lexer = NewLexer
  /\ bytes = NoBytes
  /\ number = NoNumber

\* lexer = new Lexer(text) after tokenize()
TokenizeText ==
  /\ pc = "encoded"
  /\ IsOk(text)
  /\ lexer' = tokenize(text.s)
  /\ pc' = "tokenized"
  /\ UNCHANGED <<value, opts, doc, text, decoded, retext, ftype, advice,
                 selected, bytes, number, serializationStack, frames, schemas,
                 resolved>>

NextEscape == Encode \/ TokenizeText

SpecEscape == InitEscape /\ [][NextEscape]_vars

TypesOf(tokens) == [k \in 1..Len(tokens) |-> tokens[k].type]

C20_Unquoted == pc = "tokenized" /\ ~IsQuoted(text.s)

\* ---------------------------------------------------------------------------
\* Compressed columns: encode with compression on, then decode
\* ---------------------------------------------------------------------------

ColumnSizes == {10, 11, 12}

InitColumns ==
  /\ pc = "start"
  /\ doc \in {[rows |-> n, kinds |-> kinds] : n \in ColumnSizes, kinds \in ColumnKindLists}
  /\ value = AdviceRows(doc.rows, doc.kinds)
  /\ opts = Options("compact", TRUE)
  /\ text = NotYet
  /\ decoded = NotDecoded
  /\ retext = NotYet
  /\ ftype = ""
  /\ advice = <<>>
  /\ serializationStack = {}
  /\ frames = <<>>
  /\ schemas = <<>>
  /\ resolved = NotResolved
  /\ number = NoNumber
  /\ bytes = NoBytes
  /\ lexer = NewLexer
  /\ selected = ""

NextColumns == Encode \/ Decode

SpecColumns == InitColumns /\ [][NextColumns]_vars

\* the least member of a set of line numbers, 0 for the empty set
FirstOr0(S) == IF S = {} THEN 0 ELSE Least(S)

\* the number of the line @type:field ..., 0 when the text has none
DirectiveAt(lines, type, field) ==
  FirstOr0({n \in 1..Len(lines) :
              StartsWith(lines[n], "@" \o type \o ":" \o field \o " ")})

\* what a directive line holds after its first space
PayloadOf(line) ==
  SubSeq(line, Least({p \in 1..Len(line) : Ch(line, p) = " "}) + 1, Len(line))

\* the field has a directive from which the decoder rebuilds its column
HasColumn(lines, field) ==
  \/ DirectiveAt(lines, "rle", field) > 0
  \/ DirectiveAt(lines, "delta", field) > 0
  \/ DirectiveAt(lines, "dict", field) > 0 /\ DirectiveAt(lines, "idx", field) > 0

\* the decompressed column of a field that has one
ColumnIn(lines, field) ==
  IF DirectiveAt(lines, "rle", field) > 0
    THEN decompressRLE(PayloadOf(lines[DirectiveAt(lines, "rle", field)]))
  ELSE IF DirectiveAt(lines, "delta", field) > 0
    THEN decompressDelta(PayloadOf(lines[DirectiveAt(lines, "delta", field)]))
  ELSE decompressDictionary(
         parseDictionary(PayloadOf(lines[DirectiveAt(lines, "dict", field)])),
         parseIndices(PayloadOf(lines[DirectiveAt(lines, "idx", field)])))

IsRowLine(line) == StartsWith(line, "  ")

\* the cells of the data rows at a compressed field are ~, the others hold the
\* written value of the row
RowsWritten(rowLines, lines, rows, fields, o) ==
  /\ Len(rowLines) = Len(rows.v)
  /\ \A i \in 1..Len(rows.v) :
       /\ Len(split(rowLines[i], o.delimiter)) = Len(fields)
       /\ \A k \in 1..Len(fields) :
            trim(split(rowLines[i], o.delimiter)[k]) =
              IF HasColumn(lines, fields[k]) THEN "~"
              ELSE formatValue(Get(rows.v[i], fields[k]), Root, 0, o)[1].s

\* every decoded row takes a compressed field from element i of the column and
\* every other field from the row
RowsBuilt(back, lines, rows, fields) ==
  /\ back.t = "arr"
  /\ Len(back.v) = Len(rows.v)
  /\ \A i \in 1..Len(rows.v) :
       /\ back.v[i].t = "obj"
       /\ Keys(back.v[i]) = fields
       /\ \A k \in 1..Len(fields) :
            IF HasColumn(lines, fields[k])
              THEN /\ Len(ColumnIn(lines, fields[k])) >= i
                   /\ SameValue(Get(back.v[i], fields[k]), ColumnIn(lines, fields[k])[i])
              ELSE SameValue(Get(back.v[i], fields[k]), Get(rows.v[i], fields[k]))

ColumnsRead(lines, rows, fields, back, o) ==
  /\ back.err.kind = ""
  /\ IF \A k \in 1..Len(fields) : HasColumn(lines, fields[k])
       THEN SelectSeq(lines, IsRowLine) = <<>>
       ELSE RowsWritten(SelectSeq(lines, IsRowLine), lines, rows, fields, o)
  /\ RowsBuilt(back.value, lines, rows, fields)

SomeColumn(lines, fields) == \E k \in 1..Len(fields) : HasColumn(lines, fields[k])

\* C21: when every declared field is compressed the text holds no data row and
\* decode builds exactly count rows, field f of row i being element i of the
\* decompressed column of f; when only some fields are compressed each data
\* row holds ~ at those fields, and decode puts element i of the column there
\* and reads the other fields from the row.
C21_Columns ==
  (pc = "decoded" /\ SomeColumn(split(doc, "\n"), Keys(value.v[1]))) =>
    ColumnsRead(split(doc, "\n"), value, Keys(value.v[1]), decoded, opts)

\* two fields, both compressed, decoded into rows
C21_Witness ==
  /\ pc = "decoded"
  /\ Len(Keys(value.v[1])) = 2
  /\ \A k \in 1..2 : HasColumn(split(doc, "\n"), Keys(value.v[1])[k])
  /\ decoded.err.kind = ""
  /\ Len(decoded.value.v) = Len(value.v)

\* two fields, one of them compressed, decoded into rows
C21_SomeCompressed ==
  /\ pc = "decoded"
  /\ Len(Keys(value.v[1])) = 2
  /\ HasColumn(split(doc, "\n"), "f1")
  /\ ~HasColumn(split(doc, "\n"), "f2")
  /\ decoded.err.kind = ""

\* the field:type entries of the header line name::[count] entries
HeaderEntries(header, delimiter) ==
  split(SubSeq(header, Least({p \in 1..Len(header) : Ch(header, p) = " "}) + 1,
               Len(header)), delimiter)

\* the entry ends with one of the tags
TagOf(entry, tags) == \E a \in tags : EndsWith(entry, "@" \o a)

\* a directive line of the field stands before every data row
DirectiveBeforeRows(lines, field) ==
  \E n \in 1..Len(lines) :
    /\ \E d \in {"rle", "dict", "idx", "delta"} :
         StartsWith(lines[n], "@" \o d \o ":" \o field \o " ")
    /\ \A m \in 1..n : ~IsRowLine(lines[m])

\* cell k of every data row is the placeholder
PlaceholderRows(rowLines, k, delimiter) ==
  \A i \in 1..Len(rowLines) : trim(split(rowLines[i], delimiter)[k]) = "~"

\* cell k of every data row is the written value of the row
LiteralRows(rowLines, rows, k, field, o) ==
  /\ Len(rowLines) = Len(rows.v)
  /\ \A i \in 1..Len(rowLines) :
       trim(split(rowLines[i], o.delimiter)[k])
         = formatValue(Get(rows.v[i], field), Root, 0, o)[1].s

TagMatches(lines, entries, rows, fields, tags, o) ==
  /\ Len(entries) = Len(fields)
  /\ \A k \in 1..Len(fields) :
       IF TagOf(entries[k], {"rle", "dictionary", "delta", "bitpack"})
         THEN TagOf(entries[k], tags) =>
                /\ DirectiveBeforeRows(lines, fields[k])
                /\ PlaceholderRows(SelectSeq(lines, IsRowLine), k, o.delimiter)
         ELSE LiteralRows(SelectSeq(lines, IsRowLine), rows, k, fields[k], o)

TagMatchesIn(lines, rows, tags, o) ==
  TagMatches(lines, HeaderEntries(lines[1], o.delimiter), rows, Keys(rows.v[1]), tags, o)

\* C22 as stated: in every text encode returns, each field whose header entry
\* carries an @algorithm tag has a directive line for that field before the
\* data rows and ~ in every row; a field without a tag has its written value
\* in every row.
C22_TagMatchesDirective ==
  (pc = "encoded" /\ IsOk(text)) =>
    TagMatchesIn(split(text.s, "\n"), value,
                 {"rle", "dictionary", "delta", "bitpack"}, opts)

\* the same for the tags rle, dictionary and delta
C22_ExceptBitpack ==
  (pc = "encoded" /\ IsOk(text)) =>
    TagMatchesIn(split(text.s, "\n"), value, {"rle", "dictionary", "delta"}, opts)

\* a tagged field with its directive and a field without tag in one text
C22_Tagged ==
  /\ pc = "encoded"
  /\ IsOk(text)
  /\ Len(Keys(value.v[1])) = 2
  /\ TagOf(HeaderEntries(split(text.s, "\n")[1], "|")[1], {"delta"})
  /\ ~TagOf(HeaderEntries(split(text.s, "\n")[1], "|")[2],
            {"rle", "dictionary", "delta", "bitpack"})

(***************************************************************************)
(* The delta criterion for columns of numbers                              *)
(***************************************************************************)

MaxPairs == 10

\* ups rising steps, then level equal neighbours, then the falling steps of a
\* column of pairs + 1 numbers; stride is the size of a step
DeltaShapes ==
  {[pairs |-> p, ups |-> u, level |-> e, stride |-> s] :
     p \in {8, 9, MaxPairs}, u \in 0..MaxPairs, e \in 0..MaxPairs, s \in {1, 5000}}

\* the steps up among the first k steps
UpsAmong(shape, k) == IF k <= shape.ups THEN k ELSE shape.ups

DeltaCell(shape, i) ==
  Num(100000
        + shape.stride * (UpsAmong(shape, i - 1)
                            - Max(0, i - 1 - shape.ups - shape.level)))

DeltaRows(shape) ==
  Arr([i \in 1..(shape.pairs + 1) |-> Obj(<<Entry("f1", DeltaCell(shape, i))>>)])

InitDelta ==
  /\ pc = "start"
  /\ doc \in {shape \in DeltaShapes : shape.ups + shape.level <= shape.pairs}
  /\ value = DeltaRows(doc)
  /\ opts = Options("compact", TRUE)
  /\ text = NotYet
  /\ decoded = NotDecoded
  /\ retext = NotYet
  /\ ftype = ""
  /\ advice = <<>>
  /\ serializationStack = {}
  /\ frames = <<>>
  /\ schemas = <<>>
  /\ resolved = NotResolved
  /\ number = NoNumber
  /\ bytes = NoBytes
  /\ lexer = NewLexer
  /\ selected = ""

\* the delta step of recommendCompression for the column f1
DeltaAdvice(values) ==
  IF shouldUseDelta(values) /\ DeltaRatioQualifies(values)
    THEN <<[field |-> "f1", algorithm |-> "delta"]>>
    ELSE <<>>

CheckDelta ==
  /\ pc = "start"
  /\ advice' = DeltaAdvice(ColumnValues(Children(value, Root), "f1"))
  /\ pc' = "analyzed"
  /\ UNCHANGED <<value, opts, doc, text, decoded, retext, ftype, selected,
                 lexer, bytes, number, serializationStack, frames, schemas,
                 resolved>>

NextDelta == CheckDelta

SpecDelta == InitDelta /\ [][NextDelta]_vars

\* the pairs of neighbours of the column that do not fall, and that do not rise
NotFalling(rows) ==
  Cardinality({i \in 2..Len(rows.v) :
                 Get(rows.v[i], "f1").v >= Get(rows.v[i - 1], "f1").v})

NotRising(rows) ==
  Cardinality({i \in 2..Len(rows.v) :
                 Get(rows.v[i], "f1").v <= Get(rows.v[i - 1], "f1").v})

\* at least 80% of the pairs
FourFifths(count, total) == 5 * count >= 4 * total

\* C23 as stated: a field of at least 10 finite numbers qualifies for delta
\* exactly when at least 80% of the pairs of neighbours do not fall (equal
\* neighbours count) or at least 80% do not rise, and the estimated saving is
\* at least 0.2; a field with exactly 80% such pairs qualifies.
C23_Criterion ==
  (pc = "analyzed" /\ Len(value.v) >= CompressionMinRows) =>
    ((advice # <<>>)
       <=> /\ \/ FourFifths(NotFalling(value), Len(value.v) - 1)
              \/ FourFifths(NotRising(value), Len(value.v) - 1)
           /\ DeltaRatioQualifies(ColumnValues(Children(value, Root), "f1")))

\* a field that qualifies does meet the criterion stated
C23_OnlyIf ==
  (pc = "analyzed" /\ advice # <<>>) =>
    /\ Len(value.v) >= CompressionMinRows
    /\ \/ FourFifths(NotFalling(value), Len(value.v) - 1)
       \/ FourFifths(NotRising(value), Len(value.v) - 1)

\* a rising column qualifies
C23_Rising ==
  /\ pc = "analyzed"
  /\ advice # <<>>
  /\ NotFalling(value) = MaxPairs

\* eight rising pairs of ten do not qualify
C23_AtFourFifths ==
  /\ pc = "analyzed"
  /\ doc.pairs = MaxPairs /\ doc.ups = 8 /\ doc.level = 0 /\ doc.stride = 1
  /\ advice = <<>>

(***************************************************************************)
(* Delta encoding of a column of integers and its decompression.  A number *)
(* is the double that holds the integer k * 2^53 + r, r small: written     *)
(* [k, r].  The integers up to 2^53 in size are doubles; between 2^53 and  *)
(* 2^54 every second integer is, and an odd one is rounded to the          *)
(* neighbour that is a multiple of 4.                                      *)
(***************************************************************************)

Wide(k, r) == [k |-> k, r |-> r]

\* the integer is at most 2^53 in size
IsExact(w) == w.k = 0 \/ (w.k = 1 /\ w.r <= 0) \/ (w.k = -1 /\ w.r >= 0)

NearestEven(r) ==
  IF r % 2 = 0 THEN r ELSE IF (r + 1) % 4 = 0 THEN r + 1 ELSE r - 1

\* the double nearest to an integer of at most 2^54 in size
toDouble(w) == IF IsExact(w) THEN w ELSE Wide(w.k, NearestEven(w.r))

\* a - b and a + b on doubles
Minus(a, b) == toDouble(Wide(a.k - b.k, a.r - b.r))

Plus(a, b) == toDouble(Wide(a.k + b.k, a.r + b.r))

IsNegative(w) == w.k < 0 \/ (w.k = 0 /\ w.r < 0)

Negated(w) == Wide(0 - w.k, 0 - w.r)

\* 2^53 = 90071992 54740992 and 2^54 = 180143985 09481984 in two parts
HighDigits(k) == IF k = 1 THEN 90071992 ELSE 180143985

LowDigits(k) == IF k = 1 THEN 54740992 ELSE 9481984

\* eight digits
Pad8(n) == SubSeq("0000000", 1, 8 - Len(NatToString(n))) \o NatToString(n)

\* the digits of an integer that is not negative
DigitsOf(w) ==
  IF w.k = 0 THEN NatToString(w.r)
  ELSE NatToString(HighDigits(w.k)) \o Pad8(LowDigits(w.k) + w.r)

\* String(n) of an integer
IntegerText(w) == IF IsNegative(w) THEN "-" \o DigitsOf(Negated(w)) ELSE DigitsOf(w)

\* the integer of a string of digits
IntegerNear(hi, lo) ==
  IF hi = HighDigits(1) THEN Wide(1, lo - LowDigits(1)) ELSE Wide(2, lo - LowDigits(2))

IntegerOfDigits(d) ==
  IF Len(d) <= 9 THEN Wide(0, ParseInt(d).v)
  ELSE IntegerNear(ParseInt(SubSeq(d, 1, Len(d) - 8)).v,
                   ParseInt(SubSeq(d, Len(d) - 7, Len(d))).v)

\* parseFloat of the text of an integer, with or without sign
parseFloatInteger(s) ==
  IF Ch(s, 1) = "-" THEN Negated(IntegerOfDigits(SubSeq(s, 2, Len(s))))
  ELSE IF Ch(s, 1) = "+" THEN IntegerOfDigits(SubSeq(s, 2, Len(s)))
  ELSE IntegerOfDigits(s)

\* delta >= 0 ? `+${delta}` : String(delta)
SignedText(delta) ==
  IF IsNegative(delta) THEN IntegerText(delta) ELSE "+" \o IntegerText(delta)

\* encodeDelta on doubles that hold integers
encodeDeltaDoubles(xs) ==
  IF Len(xs) = 0 THEN ""
  ELSE Join([i \in 1..Len(xs) |->
               IF i = 1 THEN IntegerText(xs[1])
               ELSE SignedText(Minus(xs[i], xs[i - 1]))], "|")

RECURSIVE RunningSum(_, _)
\* current after part k: the base, then current += delta
RunningSum(nums, k) ==
  IF k = 1 THEN nums[1] ELSE Plus(RunningSum(nums, k - 1), nums[k])

sumsOf(nums) == [k \in 1..Len(nums) |-> RunningSum(nums, k)]

partsOf(parts) == [p \in 1..Len(parts) |-> parseFloatInteger(trim(parts[p]))]

\* decompressDelta on the text of integers
decompressDeltaDoubles(encoded) == sumsOf(partsOf(split(encoded, "|")))

MaxDeltas == 3

\* small integers, and the integers next to 2^53 and -2^53
DeltaNumbers ==
  {Wide(0, r) : r \in {-1000, -1, 0, 1, 50}}
    \cup {Wide(1, -1), Wide(1, -2), Wide(-1, 1), Wide(-1, 2)}

InitTrip ==
  /\ pc = "start"
  /\ value \in UNION {[1..n -> DeltaNumbers] : n \in 1..MaxDeltas}
  /\ doc = ""
  /\ opts = NoOpts
  /\ text = NotYet
  /\ decoded = NotDecoded
  /\ retext = NotYet
  /\ ftype = ""
  /\ advice = <<>>
  /\ serializationStack = {}
  /\ frames = <<>>
  /\ schemas = <<>>
  /\ resolved = NotResolved
  /\ number = NoNumber
  /\ bytes = NoBytes
  /\ lexer = NewLexer
  /\ selected = ""

\* text = encodeDelta(value)
EncodeDelta ==
  /\ pc = "start"
  /\ text' = Ok(encodeDeltaDoubles(value))
  /\ pc' = "encoded"
  /\ UNCHANGED <<value, opts, doc, decoded, retext, ftype, advice, selected,
                 lexer, bytes, number, serializationStack, frames, schemas,
                 resolved>>

\* decoded = decompressDelta(text)
DecompressDelta ==
  /\ pc = "encoded"
  /\ decoded' = [err |-> NoError, value |-> decompressDeltaDoubles(text.s)]
  /\ pc' = "decoded"
  /\ UNCHANGED <<value, opts, doc, text, retext, ftype, advice, selected, lexer,
                 bytes, number, serializationStack, frames, schemas, resolved>>

NextTrip == EncodeDelta \/ DecompressDelta

SpecTrip == InitTrip /\ [][NextTrip]_vars

\* xs[0], then each difference from the number before with its sign
WrittenAsDeltas(xs) ==
  Join([i \in 1..Len(xs) |->
          IF i = 1 THEN IntegerText(xs[1])
          ELSE SignedText(Wide(xs[i].k - xs[i - 1].k, xs[i].r - xs[i - 1].r))], "|")

\* C24 as stated: for every sequence of integers xs that is not empty,
\* encodeDelta writes xs[0] followed by the signed differences of neighbours,
\* and decompressDelta returns exactly xs from that text.
C24_RoundTrip ==
  /\ pc = "encoded" => text.s = WrittenAsDeltas(value)
  /\ pc = "decoded" => decoded.value = value

\* the same for sequences whose neighbours differ by at most 2^53
C24_ExactDifferences ==
  (\A i \in 2..Len(value) :
     IsExact(Wide(value[i].k - value[i - 1].k, value[i].r - value[i - 1].r)))
    => C24_RoundTrip

\* a sequence that rises and falls is returned
C24_Returned ==
  /\ pc = "decoded"
  /\ value = <<Wide(0, 50), Wide(0, -1000), Wide(0, 1)>>
  /\ decoded.value = value
  /\ text.s = "50|-1050|+1001"

(***************************************************************************)
(* widenType on every pair of types                                        *)
(***************************************************************************)

\* the types inferType returns, and f64
AllTypes ==
  {"u8", "u16", "u32", "u64", "i8", "i16", "i32", "i64", "f32", "f64",
   "null", "bool", "str", "array", "object"}

InitWiden ==
  /\ pc = "start"
  /\ doc \in [current : AllTypes, candidate : AllTypes]
  /\ value = Undef
  /\ opts = NoOpts
  /\ text = NotYet
  /\ decoded = NotDecoded
  /\ retext = NotYet
  /\ ftype = ""
  /\ advice = <<>>
  /\ serializationStack = {}
  /\ frames = <<>>
  /\ schemas = <<>>
  /\ resolved = NotResolved
  /\ number = NoNumber
  /\ bytes = NoBytes
  /\ lexer = NewLexer
  /\ selected = ""

\* ftype = widenType(current, candidate)
Widen ==
  /\ pc = "start"
  /\ ftype' = widenType(doc.current, doc.candidate)
  /\ pc' = "widened"
  /\ UNCHANGED <<value, opts, doc, text, decoded, retext, advice, selected,
                 lexer, bytes, number, serializationStack, frames, schemas,
                 resolved>>

NextWiden == Widen

SpecWiden == InitWiden /\ [][NextWiden]_vars

SignedTypes == {"i8", "i16", "i32", "i64"}

UnsignedTypes == {"u8", "u16", "u32", "u64"}

\* one operand is an unsigned and the other a signed integer type
MixedSigns(a, b) ==
  \/ a \in UnsignedTypes /\ b \in SignedTypes
  \/ a \in SignedTypes /\ b \in UnsignedTypes

\* ty is the smallest signed type of more than bits bits
SmallestSignedAbove(ty, bits) ==
  /\ ty \in SignedTypes
  /\ TypeBits(ty) > bits
  /\ \A other \in SignedTypes : TypeBits(other) > bits => TypeBits(other) >= TypeBits(ty)

C25_At64 ==
  /\ pc = "widened"
  /\ doc.current = "u64"
  /\ doc.candidate = "i8"
  /\ ftype = "i64"

\* the column with the values at i and j exchanged
Exchanged(col, i, j) ==
  [k \in 1..Len(col) |-> IF k = i THEN col[j] ELSE IF k = j THEN col[i] ELSE col[k]]

\* the type inferred for the column n in another order of the rows
TypeOfColumn(col) == inferTypeForField(Children(Arr(RowsOf(col, "n")), Root), "n")

\* C27 as stated: inferTypeForField returns the same type for every ordering
\* of the values of a field, and widenType(a, b) = widenType(b, a) for every
\* pair of types.
C27_AnyOrder ==
  pc = "inferred" =>
    /\ \A i, j \in 1..Len(value.v) : TypeOfColumn(Exchanged(ColumnOf(value), i, j)) = ftype
    /\ \A i, j \in 1..Len(value.v) :
         widenType(inferType(ColumnOf(value)[i]), inferType(ColumnOf(value)[j]))
           = widenType(inferType(ColumnOf(value)[j]), inferType(ColumnOf(value)[i]))

\* widenType alone on every pair of types
C27_Commutes ==
  pc = "widened" => ftype = widenType(doc.candidate, doc.current)

\* on the numeric types widenType does not depend on the order of its operands
C27_NumericCommutes ==
  (pc = "widened" /\ InHierarchy(doc.current) /\ InHierarchy(doc.candidate)) =>
    ftype = widenType(doc.candidate, doc.current)

\* a column of three integers whose type was inferred
C27_Inferred ==
  /\ pc = "inferred"
  /\ ColumnOf(value) = <<Num(-1), Num(300), Num(5)>>
  /\ ftype = "i64"
  /\ TypeOfColumn(<<Num(5), Num(300), Num(-1)>>) = "i32"

(***************************************************************************)
(* Number tokens read by the parser                                        *)
(***************************************************************************)

Mantissas == {"1", "-2", "12", "1.5", "0", "-0.25"}

Exponents == {"", "e0", "e1", "e5", "E2", "e+2", "e-1"}

\* where the number stands: alone, as the value of a key, in a row of an array
NumberPlaces == {"alone", "field", "row"}

NumberDocument(place, literal) ==
  CASE place = "alone" -> literal
    [] place = "field" -> "n: " \o literal
    [] OTHER -> "::[1] n:f32\n  " \o literal

InitNumber ==
  /\ pc = "document"
  /\ doc \in [place : NumberPlaces, mantissa : Mantissas, exponent : Exponents]
  /\ value = Undef
  /\ opts = NoOpts
  /\ text = NotYet
  /\ decoded = NotDecoded
  /\ retext = NotYet
  /\ ftype = ""
  /\ advice = <<>>
  /\ serializationStack = {}
  /\ frames = <<>>
  /\ schemas = <<>>
  /\ resolved = NotResolved
  /\ number = NoNumber
  /\ bytes = NoBytes
  /\ lexer = NewLexer
  /\ selected = ""

\* decoded = decode(text)
DecodeNumber ==
  /\ pc = "document"
  /\ text' = Ok(NumberDocument(doc.place, doc.mantissa \o doc.exponent))
  /\ decoded' = decode(NumberDocument(doc.place, doc.mantissa \o doc.exponent))
  /\ pc' = "decoded"
  /\ UNCHANGED <<value, opts, doc, retext, ftype, advice, selected, lexer,
                 bytes, number, serializationStack, frames, schemas, resolved>>

NextNumber == DecodeNumber

SpecNumber == InitNumber /\ [][NextNumber]_vars

\* the number decode returns for the place
NumberAt(place, back) ==
  CASE place = "alone" -> back
    [] place = "field" -> IF back.t = "obj" /\ Len(back.v) = 1 THEN back.v[1].v ELSE Undef
    [] OTHER -> IF back.t = "arr" /\ Len(back.v) = 1 /\ back.v[1].t = "obj"
                     /\ Len(back.v[1].v) = 1
                  THEN back.v[1].v[1].v ELSE Undef

KeepsValue(literal, back) ==
  /\ back.err.kind = ""
  /\ SameValue(NumberAt(doc.place, back.value), ParseFloat(literal))

\* C26 as stated: the parser converts every NUMBER token to the number its
\* text denotes, a token with an exponent and no fraction included (1e5 is
\* 100000).
C26_KeepsValue ==
  pc = "decoded" => KeepsValue(doc.mantissa \o doc.exponent, decoded)

\* the tokens with a fraction or without exponent keep their value
C26_PointOrNoExponent ==
  (pc = "decoded" /\ (Includes(doc.mantissa, ".") \/ doc.exponent = "")) =>
    KeepsValue(doc.mantissa \o doc.exponent, decoded)

\* 1e5 is read as 1
C26_ReadsOne ==
  /\ pc = "decoded"
  /\ doc = [place |-> "alone", mantissa |-> "1", exponent |-> "e5"]
  /\ decoded.err.kind = ""
  /\ decoded.value = Num(1)

(***************************************************************************)
(* The delimiter option                                                    *)
(***************************************************************************)

Delimiters == {"|", ",", "\t"}

Delimited(mode, delimiter) ==
  [mode |-> mode, compression |-> FALSE, delimiter |-> delimiter, indent |-> 2]

\* uniform arrays: every record holds the same keys in the same order
UniformOrders == {<<"id">>, <<"id", "name">>, <<"id", "name", "role">>}

UniformArrays == {Records(n, order, order) : n \in 1..MaxRecords, order \in UniformOrders}

InitDelimiter ==
  /\ pc = "start"
  /\ value \in UniformArrays \cup {Obj(<<Entry("users", a)>>) : a \in UniformArrays}
  /\ opts \in {Delimited(m, d) : m \in {"auto", "compact"}, d \in Delimiters}
  /\ doc = ""
  /\ text = NotYet
  /\ decoded = NotDecoded
  /\ retext = NotYet
  /\ ftype = ""
  /\ advice = <<>>
  /\ serializationStack = {}
  /\ frames = <<>>
  /\ schemas = <<>>
  /\ resolved = NotResolved
  /\ number = NoNumber
  /\ bytes = NoBytes
  /\ lexer = NewLexer
  /\ selected = ""

NextDelimiter == Encode \/ Decode

SpecDelimiter == InitDelimiter /\ [][NextDelimiter]_vars

ReturnsOriginal(back, original) ==
  /\ back.err.kind = ""
  /\ SameValue(back.value, original)

\* C28 as stated: for each of the delimiters pipe, comma and tab, decode
\* accepts the text encode produces with that delimiter for a uniform array of
\* objects and returns the original value.
C28_EveryDelimiter ==
  /\ pc = "encoded" => IsOk(text)
  /\ pc = "decoded" => ReturnsOriginal(decoded, value)

\* the same for the pipe alone
C28_Pipe ==
  (pc = "decoded" /\ opts.delimiter = "|") => ReturnsOriginal(decoded, value)

\* with the comma and the tab decode never returns the array of two fields
C28_OtherDelimiters ==
  (pc = "decoded" /\ opts.delimiter # "|" /\ Len(RecordsOf(value).v[1].v) > 1)
    => ~ReturnsOriginal(decoded, value)

\* two records written with the pipe and read back
C28_PipeReturned ==
  /\ pc = "decoded"
  /\ opts.delimiter = "|"
  /\ value = Records(2, <<"id", "name">>, <<"id", "name">>)
  /\ ReturnsOriginal(decoded, value)

(***************************************************************************)
(* The objects a Serializer is serializing.  A value is a heap of objects  *)
(* numbered from 1; a field holds a primitive, one of the objects, or an   *)
(* array that holds one of the objects, so that an object may be reached   *)
(* from two places and may contain itself.  serializeObject is followed    *)
(* call by call: frames holds the calls in progress, each with the object  *)
(* and the field it is at (0 before enterObject).                          *)
(***************************************************************************)

MaxObjects == 3

Primitive == [kind |-> "prim", ref |-> 0]

FieldsOfObjects == {[kind |-> "obj", ref |-> j] : j \in 1..MaxObjects}

FieldsOfArrays == {[kind |-> "arr", ref |-> j] : j \in 1..MaxObjects}

\* the first object holds two fields, every other object one
Heaps ==
  {[k \in 1..MaxObjects |-> IF k = 1 THEN <<p[1], p[2]>> ELSE <<g[k]>>] :
     p \in ({Primitive} \cup FieldsOfObjects)
             \X ({Primitive} \cup FieldsOfObjects \cup FieldsOfArrays),
     g \in [2..MaxObjects -> {Primitive} \cup FieldsOfObjects]}

\* the objects the fields of object k hold
HeldBy(heap, k) == {heap[k][i].ref : i \in {n \in 1..Len(heap[k]) : heap[k][n].kind # "prim"}}

RECURSIVE ReachedIn(_, _, _)
\* the objects reached from those of S in at most n steps
ReachedIn(heap, S, n) ==
  IF n = 0 THEN S
  ELSE ReachedIn(heap, S \cup UNION {HeldBy(heap, k) : k \in S}, n - 1)

Reached(heap, S) == ReachedIn(heap, S, MaxObjects)

\* object k contains itself
ContainsItself(heap, k) == k \in Reached(heap, HeldBy(heap, k))

\* JSON.stringify throws its TypeError for an object that reaches a cycle
JsonThrows(heap, j) == \E k \in Reached(heap, {j}) : ContainsItself(heap, k)

\* a plausible slip: the object stays in the set
leaveObjectKeeps(stack, obj) == stack

\* serializationStack.add(value), after the check
enterObject(stack, obj) == stack \cup {obj}

\* serializationStack.delete(value)
leaveObject(stack, obj) == stack \ {obj}

InitVisit ==
  /\ pc = "idle"
  /\ value \in Heaps
  /\ doc = [root |-> 0]
  /\ opts = NoOpts
  /\ text = NotYet
  /\ decoded = NotDecoded
  /\ retext = NotYet
  /\ ftype = ""
  /\ advice = <<>>
  /\ serializationStack = {}
  /\ frames = <<>>
  /\ schemas = <<>>
  /\ resolved = NotResolved
  /\ number = NoNumber
  /\ bytes = NoBytes
  /\ lexer = NewLexer
  /\ selected = ""

Top == frames[Len(frames)]

Popped == SubSeq(frames, 1, Len(frames) - 1)

\* serialize(value) for the object root: the set is made anew, and
\* serializeDefault calls serializeObject
Serialize(root) ==
  /\ pc = "idle"
  /\ serializationStack' = {}
  /\ frames' = <<[obj |-> root, at |-> 0]>>
  /\ doc' = [root |-> root]
  /\ retext' = text
  /\ text' = NotYet
  /\ pc' = "serializing"
  /\ UNCHANGED <<value, opts, decoded, ftype, advice, selected, lexer, bytes,
                 number, schemas, resolved>>

\* the throw of a call that has not entered its object: no finally runs for it
ThrowBeforeEnter(message) ==
  /\ text' = Err(message)
  /\ frames' = Popped
  /\ pc' = IF Popped = <<>> THEN "idle" ELSE "throwing"
  /\ UNCHANGED serializationStack

\* checkDepth(level) and enterObject(obj) at the start of serializeObject
EnterObject ==
  /\ pc = "serializing"
  /\ frames # <<>>
  /\ Top.at = 0
  /\ IF Len(frames) - 1 > MAX_DEPTH
       THEN ThrowBeforeEnter("Maximum nesting depth exceeded")
     ELSE IF Top.obj \in serializationStack
       THEN ThrowBeforeEnter("Circular reference detected")
     ELSE /\ serializationStack' = enterObject(serializationStack, Top.obj)
          /\ frames' = [frames EXCEPT ![Len(frames)].at = 1]
          /\ UNCHANGED <<pc, text>>
  /\ UNCHANGED <<value, opts, doc, decoded, retext, ftype, advice, selected,
                 lexer, bytes, number, schemas, resolved>>

\* one entry of the loop over Object.entries(obj)
VisitField ==
  /\ pc = "serializing"
  /\ frames # <<>>
  /\ Top.at \in 1..Len(value[Top.obj])
  /\ CASE value[Top.obj][Top.at].kind = "obj" ->
            /\ frames' = Append([frames EXCEPT ![Len(frames)].at = @ + 1],
                                [obj |-> value[Top.obj][Top.at].ref, at |-> 0])
            /\ UNCHANGED <<pc, text>>
       [] value[Top.obj][Top.at].kind = "arr"
            /\ JsonThrows(value, value[Top.obj][Top.at].ref) ->
            /\ text' = Err("TypeError")
            /\ pc' = "throwing"
            /\ UNCHANGED frames
       [] OTHER ->
            /\ frames' = [frames EXCEPT ![Len(frames)].at = @ + 1]
            /\ UNCHANGED <<pc, text>>
  /\ UNCHANGED <<value, opts, doc, decoded, retext, ftype, advice, selected,
                 lexer, bytes, number, serializationStack, schemas, resolved>>

\* the end of serializeObject: finally leaveObject(obj), and the return
LeaveObject ==
  /\ pc = "serializing"
  /\ frames # <<>>
  /\ Top.at = Len(value[Top.obj]) + 1
  /\ serializationStack' = leaveObject(serializationStack, Top.obj)
  /\ frames' = Popped
  /\ pc' = IF Popped = <<>> THEN "idle" ELSE "serializing"
  /\ text' = IF Popped = <<>> THEN Ok("") ELSE text
  /\ UNCHANGED <<value, opts, doc, decoded, retext, ftype, advice, selected,
                 lexer, bytes, number, schemas, resolved>>

\* an error passes through a call of serializeObject: finally leaveObject(obj)
Unwind ==
  /\ pc = "throwing"
  /\ frames # <<>>
  /\ serializationStack' = leaveObject(serializationStack, Top.obj)
  /\ frames' = Popped
  /\ pc' = IF Popped = <<>> THEN "idle" ELSE "throwing"
  /\ UNCHANGED <<value, opts, doc, text, decoded, retext, ftype, advice,
                 selected, lexer, bytes, number, schemas, resolved>>

NextVisit ==
  \/ \E root \in 1..MaxObjects : Serialize(root)
  \/ EnterObject
  \/ VisitField
  \/ LeaveObject
  \/ Unwind

SpecVisit == InitVisit /\ [][NextVisit]_vars

\* the objects of the calls that have entered and not yet left
OnPath == {frames[k].obj : k \in {n \in 1..Len(frames) : frames[n].at >= 1}}

\* some object reached from root is held by two fields of the objects reached
HeldTwice(heap, root) ==
  \E j \in Reached(heap, {root}) :
    Cardinality({<<k, i>> \in Reached(heap, {root}) \X {1, 2} :
                   i <= Len(heap[k]) /\ heap[k][i].kind # "prim"
                     /\ heap[k][i].ref = j}) >= 2

\* C29: the set of objects being visited holds exactly the objects on the
\* current path, whether the calls return or throw; it is empty when a
\* top-level serialize call starts and when it ends; and a value without
\* cycle, also one that holds the same object in two places, is encoded
\* without error, also after a call that failed.
C29_CurrentPath ==
  /\ pc \in {"serializing", "throwing"} => serializationStack = OnPath
  /\ pc = "idle" => serializationStack = {}
  /\ (pc = "idle" /\ text # NotYet /\ ~JsonThrows(value, doc.root)) => IsOk(text)

\* an object held twice is encoded after a call that threw for a cycle
C29_Witness ==
  /\ pc = "idle"
  /\ retext = Err("Circular reference detected")
  /\ HeldTwice(value, doc.root)
  /\ IsOk(text)

\* the error passes through two calls in progress
C29_Throwing ==
  /\ pc = "throwing"
  /\ Len(frames) = 2
  /\ text = Err("Circular reference detected")

(***************************************************************************)
(* SchemaRegistry (schema/validator).  schemas is the Map of the registry  *)
(* as a function from the registered names; a schema is [name, extends,    *)
(* fields], extends "" when it has none and fields the names of its        *)
(* fields.                                                                 *)
(***************************************************************************)

\* the depth of calls at which the engine throws its RangeError
MaxStack == 4

SchemaNames == {"A", "B", "C"}

\* no field, a field twice, one field
FieldLists(name) == {<<>>, <<"f" \o name, "f" \o name>>, <<"f" \o name>>}

\* schemas with and without name, with each list of fields
SchemaInputs ==
  {[name |-> n[1], extends |-> e, fields |-> n[2]] :
     n \in UNION {{m} \X FieldLists(m) : m \in {""} \cup SchemaNames},
     e \in {""} \cup SchemaNames}

Has(reg, name) == name \in DOMAIN reg

\* this.schemas.set(schema.name, schema)
SetSchema(reg, schema) ==
  [n \in DOMAIN reg \cup {schema.name} |-> IF n = schema.name THEN schema ELSE reg[n]]

\* what register throws for the schema, "" when it throws nothing
registerError(schema) ==
  IF schema.name = "" THEN "Schema name cannot be empty"
  ELSE IF Len(schema.fields) = 0 THEN "Schema must have at least one field"
  ELSE IF \E i, j \in 1..Len(schema.fields) : i < j /\ schema.fields[i] = schema.fields[j]
    THEN "Duplicate field name"
  ELSE ""

Undefined == [kind |-> "undefined", fields |-> <<>>]

Resolved(fields) == [kind |-> "schema", fields |-> fields]

Thrown(kind) == [kind |-> kind, fields |-> <<>>]

\* the schema merged with its resolved parent
mergeParent(schema, parent) ==
  CASE parent.kind = "undefined" -> Thrown("AXONSchemaError")
    [] parent.kind = "schema" -> Resolved(parent.fields \o schema.fields)
    [] OTHER -> parent

RECURSIVE getResolvedAt(_, _, _)
\* getResolved(name) as call number depth on the stack
getResolvedAt(reg, name, depth) ==
  IF depth > MaxStack THEN Thrown("RangeError")
  ELSE IF ~Has(reg, name) THEN Undefined
  ELSE IF reg[name].extends = "" THEN Resolved(reg[name].fields)
  ELSE mergeParent(reg[name], getResolvedAt(reg, reg[name].extends, depth + 1))

getResolved(reg, name) == getResolvedAt(reg, name, 1)

InitRegistry ==
  /\ pc = "new"
  /\ schemas = <<>>
  /\ resolved = NotResolved
  /\ doc = ""
  /\ value = Undef
  /\ opts = NoOpts
  /\ text = NotYet
  /\ decoded = NotDecoded
  /\ retext = NotYet
  /\ ftype = ""
  /\ advice = <<>>
  /\ serializationStack = {}
  /\ frames = <<>>
  /\ number = NoNumber
  /\ bytes = NoBytes
  /\ lexer = NewLexer
  /\ selected = ""

\* registry.register(schema)
Register(schema) ==
  /\ doc' = schema.name
  /\ text' = IF registerError(schema) = "" THEN Ok("") ELSE Err(registerError(schema))
  /\ schemas' = IF registerError(schema) = "" THEN SetSchema(schemas, schema) ELSE schemas
  /\ pc' = "registered"
  /\ UNCHANGED <<value, opts, decoded, retext, ftype, advice, selected, lexer,
                 bytes, number, serializationStack, frames, resolved>>

\* registry.delete(name)
Delete(name) ==
  /\ doc' = name
  /\ schemas' = [n \in DOMAIN schemas \ {name} |-> schemas[n]]
  /\ pc' = "deleted"
  /\ UNCHANGED <<value, opts, text, decoded, retext, ftype, advice, selected,
                 lexer, bytes, number, serializationStack, frames, resolved>>

\* registry.clear()
Clear ==
  /\ doc' = ""
  /\ schemas' = <<>>
  /\ pc' = "cleared"
  /\ UNCHANGED <<value, opts, text, decoded, retext, ftype, advice, selected,
                 lexer, bytes, number, serializationStack, frames, resolved>>

\* resolved = registry.getResolved(name)
GetResolved(name) ==
  /\ doc' = name
  /\ resolved' = getResolved(schemas, name)
  /\ pc' = "resolved"
  /\ UNCHANGED <<value, opts, text, decoded, retext, ftype, advice, selected,
                 lexer, bytes, number, serializationStack, frames, schemas>>

NextRegistry ==
  \/ \E schema \in SchemaInputs : Register(schema)
  \/ \E name \in SchemaNames : Delete(name)
  \/ Clear
  \/ \E name \in SchemaNames : GetResolved(name)

SpecRegistry == InitRegistry /\ [][NextRegistry]_vars

RECURSIVE AncestorsIn(_, _, _)
\* name and the schemas above it along the extends links, at most steps of them
AncestorsIn(reg, name, steps) ==
  IF steps = 0 THEN <<>>
  ELSE IF ~Has(reg, name) \/ reg[name].extends = "" THEN <<name>>
  ELSE <<name>> \o AncestorsIn(reg, reg[name].extends, steps - 1)

Ancestors(reg, name) == AncestorsIn(reg, name, Cardinality(SchemaNames) + 1)

\* the fields of the schemas of a chain, the topmost first
RECURSIVE FieldsAlong(_, _)
FieldsAlong(reg, chain) ==
  IF chain = <<>> THEN <<>>
  ELSE FieldsAlong(reg, Tail(chain)) \o reg[Head(chain)].fields

\* the extends links above name come back to a schema of the chain
InCycle(chain) == Len(chain) > Cardinality(SchemaNames)

\* what the registry is to return for name, chain being its ancestors
ResolvesAs(reg, name, chain, result) ==
  IF ~Has(reg, name) THEN result = Undefined
  ELSE IF ~InCycle(chain) /\ ~Has(reg, chain[Len(chain)])
    THEN result.kind = "AXONSchemaError"
  ELSE /\ result.kind = "schema"
       /\ ~InCycle(chain) => result.fields = FieldsAlong(reg, chain)

\* C30 as stated: after any sequence of register, delete and clear calls,
\* getResolved(name) ends for every name: with undefined for a name that is
\* not registered, with a schema error when a parent named in extends is not
\* registered, and otherwise with the resolved fields of the parent followed
\* by the fields of the schema, also when the extends links form a cycle.
C30_Resolves ==
  pc = "resolved" => ResolvesAs(schemas, doc, Ancestors(schemas, doc), resolved)

\* the same for a name whose extends links form no cycle
C30_WithoutCycle ==
  (pc = "resolved" /\ ~InCycle(Ancestors(schemas, doc)))
    => ResolvesAs(schemas, doc, Ancestors(schemas, doc), resolved)

\* a schema under two ancestors is resolved
C30_Resolved ==
  /\ pc = "resolved"
  /\ Len(Ancestors(schemas, doc)) = 3
  /\ resolved.kind = "schema"
  /\ Len(resolved.fields) = 3

\* a schema that extends itself is registered, and getResolved ends with the
\* RangeError of the engine
C30_Overflow ==
  /\ pc = "resolved"
  /\ Has(schemas, doc)
  /\ schemas[doc].extends = doc
  /\ resolved.kind = "RangeError"

====
